---- MODULE Spec2Model ----
(***************************************************************************)
(* The CMDB orchestration inventory plugin (cmdb_orchestration.py):        *)
(* field validation, safety gate, filters, group derivation and the merge  *)
(* of device records into the Ansible inventory, as one state machine.     *)
(***************************************************************************)
EXTENDS Integers, Sequences, FiniteSets, TLC

(***************************************************************************)
(* Python values.  Every value a JSON payload can hold is a record with a  *)
(* type tag t, a string part s and a numeric part n (a list keeps only its *)
(* length, in n).                                                          *)
(***************************************************************************)
None == [t |-> "none", s |-> "", n |-> 0]
Str(x) == [t |-> "str", s |-> x, n |-> 0]
Num(k) == [t |-> "int", s |-> "", n |-> k]
Bool(b) == [t |-> "bool", s |-> "", n |-> IF b THEN 1 ELSE 0]
Lst(k) == [t |-> "list", s |-> "", n |-> k]

IsStr(v) == v.t = "str"
\* isinstance(v, int): bool is a subclass of int
IsInt(v) == v.t \in {"int", "bool"}
\* isinstance(v, (str, int, float, bool))
IsScalar(v) == v.t \in {"str", "int", "bool", "float"}
\* bool(v)
Truthy(v) ==
    CASE v.t = "none" -> FALSE
      [] v.t = "str" -> v.s # ""
      [] OTHER -> v.n # 0
\* str(v), as the f-strings of the plugin format a value
Fmt(v) ==
    CASE v.t = "none" -> "None"
      [] v.t = "str" -> v.s
      [] v.t = "int" -> ToString(v.n)
      [] v.t = "bool" -> (IF v.n = 1 THEN "True" ELSE "False")
      [] OTHER -> "[" \o ToString(v.n) \o " items]"

\* dict.get(k) and dict.get(k, default) on a device record (a function from
\* its keys to values)
Has(d, k) == k \in DOMAIN d
Get(d, k) == IF k \in DOMAIN d THEN d[k] ELSE None
GetOr(d, k, dflt) == IF k \in DOMAIN d THEN d[k] ELSE dflt

\* a == b: an int and a bool are equal when their numbers are
PyEq(a, b) == IF IsInt(a) /\ IsInt(b) THEN a.n = b.n ELSE a = b

(***************************************************************************)
(* Strings: the character at a position, character classes, and the two    *)
(* regular expressions and the IPv4 parser of the field validator.         *)
(***************************************************************************)
Ch(s, i) == SubSeq(s, i, i)
Digits == {"0", "1", "2", "3", "4", "5", "6", "7", "8", "9"}
Lower == {"a", "b", "c", "d", "e", "f", "g", "h", "i", "j", "k", "l", "m",
          "n", "o", "p", "q", "r", "s", "t", "u", "v", "w", "x", "y", "z"}
Upper == {"A", "B", "C", "D", "E", "F", "G", "H", "I", "J", "K", "L", "M",
          "N", "O", "P", "Q", "R", "S", "T", "U", "V", "W", "X", "Y", "Z"}
Alnum == Digits \cup Lower \cup Upper
Whitespace == {" ", "\t", "\n", "\r"}

\* `$` matches at the end of the string and before one trailing newline
DollarEnd(s) ==
    IF Len(s) > 0 /\ Ch(s, Len(s)) = "\n" THEN {Len(s), Len(s) - 1} ELSE {Len(s)}

\* re.match(r'^[a-zA-Z0-9][a-zA-Z0-9-_.]*[a-zA-Z0-9]$', s)
NameFormatMatch(s) ==
    \E e \in DollarEnd(s) :
        /\ e >= 2
        /\ Ch(s, 1) \in Alnum
        /\ Ch(s, e) \in Alnum
        /\ \A i \in 2..(e - 1) : Ch(s, i) \in Alnum \cup {"-", "_", "."}

\* re.match(r'^[a-zA-Z0-9][a-zA-Z0-9-]*[a-zA-Z0-9]*$', s)
HostnameMatch(s) ==
    \E e \in DollarEnd(s) :
        /\ e >= 1
        /\ Ch(s, 1) \in Alnum
        /\ \A i \in 2..e : Ch(s, i) \in Alnum \cup {"-"}

DigitVal(c) ==
    CASE c = "0" -> 0 [] c = "1" -> 1 [] c = "2" -> 2 [] c = "3" -> 3
      [] c = "4" -> 4 [] c = "5" -> 5 [] c = "6" -> 6 [] c = "7" -> 7
      [] c = "8" -> 8 [] c = "9" -> 9
      [] c \in {"a", "A"} -> 10 [] c \in {"b", "B"} -> 11
      [] c \in {"c", "C"} -> 12 [] c \in {"d", "D"} -> 13
      [] c \in {"e", "E"} -> 14 [] c \in {"f", "F"} -> 15
      [] OTHER -> 99

\* One number of an inet_aton address, as strtoul reads it: hexadecimal after
\* 0x, octal after a leading 0, decimal otherwise.  The value is kept as its
\* high and low 16 bits (hi saturating at 2^16, which is past every limit);
\* hi = -1 when the text is no number.
RECURSIVE PartVal(_, _, _, _)
PartVal(s, i, base, acc) ==
    IF i > Len(s) THEN acc
    ELSE IF DigitVal(Ch(s, i)) >= base THEN [hi |-> -1, lo |-> 0]
    ELSE LET lo == acc.lo * base + DigitVal(Ch(s, i))
             hi == acc.hi * base + (lo \div 65536)
         IN  PartVal(s, i + 1, base,
                     [hi |-> IF hi > 65536 THEN 65536 ELSE hi, lo |-> lo % 65536])

InetPart(s) ==
    IF Len(s) = 0 THEN [hi |-> -1, lo |-> 0]
    ELSE IF Len(s) >= 2 /\ Ch(s, 1) = "0" /\ Ch(s, 2) \in {"x", "X"}
         THEN IF Len(s) = 2 THEN [hi |-> -1, lo |-> 0]
              ELSE PartVal(s, 3, 16, [hi |-> 0, lo |-> 0])
    ELSE IF Ch(s, 1) = "0" THEN PartVal(s, 2, 8, [hi |-> 0, lo |-> 0])
    ELSE PartVal(s, 1, 10, [hi |-> 0, lo |-> 0])

\* The dot-separated parts of s[1..e]
RECURSIVE SplitDots(_, _, _, _)
SplitDots(s, i, e, cur) ==
    IF i > e THEN <<cur>>
    ELSE IF Ch(s, i) = "." THEN <<cur>> \o SplitDots(s, i + 1, e, "")
    ELSE SplitDots(s, i + 1, e, cur \o Ch(s, i))

\* Where the address ends: at the end of the string or at its first
\* whitespace (inet_aton ignores what follows whitespace)
RECURSIVE AddrEnd(_, _)
AddrEnd(s, i) ==
    IF i > Len(s) \/ Ch(s, i) \in Whitespace THEN i - 1 ELSE AddrEnd(s, i + 1)

\* socket.inet_aton(s) succeeds: a, a.b, a.b.c or a.b.c.d, every part but the
\* last at most 255, the last filling the remaining bytes
InetAtonOk(s) ==
    LET Fits(v, j, k) ==
            /\ v.hi >= 0
            /\ IF j < k \/ k = 4 THEN v.hi = 0 /\ v.lo <= 255
               ELSE CASE k = 1 -> v.hi <= 65535
                      [] k = 2 -> v.hi <= 255
                      [] OTHER -> v.hi = 0
        Check(parts) ==
            /\ Len(parts) <= 4
            /\ \A j \in 1..Len(parts) : Fits(InetPart(parts[j]), j, Len(parts))
    IN  Check(SplitDots(s, 1, AddrEnd(s, 1), ""))

(***************************************************************************)
(* Sequences and sets                                                      *)
(***************************************************************************)
RECURSIVE JoinWith(_, _)
\* sep.join(strs)
JoinWith(strs, sep) ==
    IF Len(strs) = 0 THEN ""
    ELSE IF Len(strs) = 1 THEN strs[1]
    ELSE strs[1] \o sep \o JoinWith(Tail(strs), sep)

RECURSIVE SetToSeq(_)
\* The elements of a finite set in one fixed order
SetToSeq(S) ==
    IF S = {} THEN <<>>
    ELSE LET x == CHOOSE y \in S : TRUE IN <<x>> \o SetToSeq(S \ {x})

Range(f) == {f[i] : i \in DOMAIN f}
StartsWith(s, p) == Len(s) >= Len(p) /\ SubSeq(s, 1, Len(p)) = p

(***************************************************************************)
(* Field validator: _validate_individual_devices                           *)
(***************************************************************************)
required_fields == <<"name", "device_type", "vendor", "mgmt_ip">>
valid_device_types ==
    <<"router", "switch", "firewall", "load_balancer", "wireless_controller">>
valid_vendors ==
    <<"cisco", "arista", "juniper", "fortinet", "palo_alto", "f5", "mikrotik">>
MinNameLen == 2
MaxNameLen == 63
MinPort == 1
MaxPort == 65535
DefaultSshPort == 22

\* repr of a list of strings, as the error messages print the enumerations
ReprList(strs) ==
    "[" \o JoinWith([i \in 1..Len(strs) |-> "'" \o strs[i] \o "'"], ", ") \o "]"

\* v in <list of strings>
InStrList(v, strs) == IsStr(v) /\ v.s \in Range(strs)

\* The custom_* keys of a record
CustomKeys(device) == {k \in DOMAIN device : StartsWith(k, "custom_")}

\* Lines 238-242: one message per required field that is absent or falsy
MissingErrors(device) ==
    SelectSeq([i \in 1..Len(required_fields) |->
                  IF ~Has(device, required_fields[i]) \/ ~Truthy(device[required_fields[i]])
                  THEN "Missing required field: " \o required_fields[i] ELSE ""],
              LAMBDA m : m # "")

\* Lines 244-251.  `import re` sits inside the `if 'name' in device` block, so
\* the function-local name `re` is bound only once some record with a name key
\* has been seen; re.match on a name that is no string raises TypeError.
NameCheck(device, reBound) ==
    IF ~Has(device, "name") THEN [raised |-> FALSE, errors |-> <<>>, reBound |-> reBound]
    ELSE LET name == device["name"]
             lenErr == IF ~IsStr(name) \/ Len(name.s) < MinNameLen \/ Len(name.s) > MaxNameLen
                       THEN <<"Invalid name length: " \o Fmt(name)>> ELSE <<>>
         IN  IF ~IsStr(name)
             THEN [raised |-> TRUE, errors |-> lenErr, reBound |-> TRUE]
             ELSE [raised |-> FALSE,
                   errors |-> lenErr \o (IF ~NameFormatMatch(name.s)
                                         THEN <<"Invalid name format: " \o Fmt(name)>>
                                         ELSE <<>>),
                   reBound |-> TRUE]

\* Lines 253-261
EnumErrors(device) ==
    (IF ~InStrList(Get(device, "device_type"), valid_device_types)
     THEN <<"Invalid device_type: " \o Fmt(Get(device, "device_type"))
            \o ". Must be one of: " \o ReprList(valid_device_types)>>
     ELSE <<>>)
    \o
    (IF ~InStrList(Get(device, "vendor"), valid_vendors)
     THEN <<"Invalid vendor: " \o Fmt(Get(device, "vendor"))
            \o ". Must be one of: " \o ReprList(valid_vendors)>>
     ELSE <<>>)

\* Lines 263-272.  socket.inet_aton raises TypeError on a value that is no
\* string; the hostname fallback uses the local `re`, which is unbound (an
\* UnboundLocalError) when no record so far had a name key.
MgmtIpCheck(device, reBound) ==
    LET mgmt_ip == Get(device, "mgmt_ip") IN
    IF ~Truthy(mgmt_ip) THEN [raised |-> FALSE, errors |-> <<>>]
    ELSE IF ~IsStr(mgmt_ip) THEN [raised |-> TRUE, errors |-> <<>>]
    ELSE IF InetAtonOk(mgmt_ip.s) THEN [raised |-> FALSE, errors |-> <<>>]
    ELSE IF ~reBound THEN [raised |-> TRUE, errors |-> <<>>]
    ELSE [raised |-> FALSE,
          errors |-> IF ~HostnameMatch(mgmt_ip.s)
                     THEN <<"Invalid mgmt_ip format: " \o Fmt(mgmt_ip)>> ELSE <<>>]

\* Lines 274-277
PortErrors(device) ==
    LET ssh_port == GetOr(device, "ssh_port", Num(DefaultSshPort)) IN
    IF ~IsInt(ssh_port) \/ ssh_port.n < MinPort \/ ssh_port.n > MaxPort
    THEN <<"Invalid ssh_port: " \o Fmt(ssh_port) \o ". Must be 1-65535">>
    ELSE <<>>

\* Lines 279-282
CustomErrors(device) ==
    LET keys == SetToSeq({k \in CustomKeys(device) : ~IsScalar(device[k])}) IN
    [i \in 1..Len(keys) |->
        "Custom field " \o keys[i] \o " must be scalar value, got: <class '"
        \o device[keys[i]].t \o "'>"]

\* One iteration of the loop of lines 235-287 on record number i (from 0)
ValidateDevice(device, i, reBound) ==
    LET Verdict(nm, ip, device_errors) ==
            [raised |-> nm.raised \/ ip.raised,
             reBound |-> nm.reBound,
             ok |-> device_errors = <<>>,
             error |-> "Device " \o ToString(i + 1) \o " ("
                       \o Fmt(GetOr(device, "name", Str("unnamed"))) \o "): "
                       \o JoinWith(device_errors, "; ")]
        Collect(nm, ip) ==
            Verdict(nm, ip,
                    MissingErrors(device) \o nm.errors \o EnumErrors(device)
                    \o ip.errors \o PortErrors(device) \o CustomErrors(device))
        AfterName(nm) == Collect(nm, MgmtIpCheck(device, nm.reBound))
    IN  AfterName(NameCheck(device, reBound))

RECURSIVE ValidateFrom(_, _, _, _, _)
ValidateFrom(devices, i, reBound, valid, errors) ==
    LET Step(r) ==
            IF r.raised THEN [raised |-> TRUE, valid |-> <<>>, errors |-> <<>>]
            ELSE ValidateFrom(devices, i + 1, r.reBound,
                              IF r.ok THEN Append(valid, devices[i + 1]) ELSE valid,
                              IF r.ok THEN errors ELSE Append(errors, r.error))
    IN  IF i >= Len(devices)
        THEN [raised |-> FALSE, valid |-> valid, errors |-> errors]
        ELSE Step(ValidateDevice(devices[i + 1], i, reBound))

\* _validate_individual_devices(devices): (valid_devices, validation_errors),
\* or raised when an exception leaves the function
validate_individual_devices(devices) == ValidateFrom(devices, 0, FALSE, <<>>, <<>>)

(***************************************************************************)
(* Filter engine, safety gate and group mapper                             *)
(***************************************************************************)
\* filters.get(axis, []): a list of values
AxisList(filters, axis) == IF axis \in DOMAIN filters THEN filters[axis] ELSE <<>>

\* An axis that lets a record without the field through
axis_passes_missing_field(device, filters, axis, field) ==
    LET lst == AxisList(filters, axis) IN
    ~(Len(lst) > 0 /\ Has(device, field) /\ Get(device, field) \notin Range(lst))

\* One axis of _apply_filters: `if lst and device.get(field) not in lst`
AxisPasses(device, filters, axis, field) ==
    LET lst == AxisList(filters, axis) IN
    ~(Len(lst) > 0 /\ Get(device, field) \notin Range(lst))

\* _apply_filters(device, filters)
apply_filters(device, filters) ==
    IF DOMAIN filters = {} THEN TRUE
    ELSE /\ AxisPasses(device, filters, "device_types", "device_type")
         /\ AxisPasses(device, filters, "vendors", "vendor")
         /\ AxisPasses(device, filters, "locations", "location")
         /\ AxisPasses(device, filters, "os_families", "os_family")

DefaultMaxDevices == 100

\* A gate whose size check is off by one: a batch of exactly the limit is
\* already too large
safety_gate_at_limit(devices, safety_config) ==
    LET max_devices == GetOr(safety_config, "max_devices_per_sync", Num(DefaultMaxDevices))
        allow_deletions == GetOr(safety_config, "allow_deletions", Bool(FALSE))
    IN  IF Len(devices) >= max_devices.n THEN "safety_size"
        ELSE IF ~Truthy(allow_deletions)
                /\ \E i \in 1..Len(devices) : Get(devices[i], "_state") = Str("absent")
        THEN "safety_deletion"
        ELSE "ok"

\* _validate_incremental_safety(devices, safety_config): "ok", or the error
\* it raises
validate_incremental_safety(devices, safety_config) ==
    LET max_devices == GetOr(safety_config, "max_devices_per_sync", Num(DefaultMaxDevices))
        allow_deletions == GetOr(safety_config, "allow_deletions", Bool(FALSE))
    IN  IF Len(devices) > max_devices.n THEN "safety_size"
        ELSE IF ~Truthy(allow_deletions)
                /\ \E i \in 1..Len(devices) : Get(devices[i], "_state") = Str("absent")
        THEN "safety_deletion"
        ELSE "ok"

\* A match on any one criterion
matches_any_criterion(device, criteria) ==
    \E key \in DOMAIN criteria : PyEq(Get(device, key), criteria[key])

\* _matches_criteria(device, criteria), criteria a dict
matches_criteria(device, criteria) ==
    \A key \in DOMAIN criteria : PyEq(Get(device, key), criteria[key])

\* A static rule that ignores its switch
static_group_always(device, group_mappings, flag, field, prefix) ==
    IF Truthy(Get(device, field)) THEN <<prefix \o Fmt(device[field])>> ELSE <<>>

\* One static rule of _create_device_groups
StaticGroup(device, group_mappings, flag, field, prefix) ==
    IF Truthy(GetOr(group_mappings, flag, Bool(TRUE))) /\ Truthy(Get(device, field))
    THEN <<prefix \o Fmt(device[field])>> ELSE <<>>

\* custom_groups is a list of [name, isdict, criteria] in configuration order;
\* criteria.items() raises on a criteria value that is no dict
RECURSIVE CustomGroupsFrom(_, _, _, _)
CustomGroupsFrom(device, custom_groups, i, groups) ==
    IF i > Len(custom_groups) THEN [raised |-> FALSE, groups |-> groups]
    ELSE IF ~custom_groups[i].isdict THEN [raised |-> TRUE, groups |-> groups]
    ELSE CustomGroupsFrom(device, custom_groups, i + 1,
             IF matches_criteria(device, custom_groups[i].criteria)
             THEN Append(groups, custom_groups[i].name) ELSE groups)

\* _create_device_groups(device, group_mappings): the list of group names
create_device_groups(device, group_mappings) ==
    CustomGroupsFrom(device,
        IF "custom_groups" \in DOMAIN group_mappings
        THEN group_mappings["custom_groups"] ELSE <<>>,
        1,
        StaticGroup(device, group_mappings, "by_vendor", "vendor", "vendor_")
        \o StaticGroup(device, group_mappings, "by_location", "location", "location_")
        \o StaticGroup(device, group_mappings, "by_device_type", "device_type", "type_")
        \o StaticGroup(device, group_mappings, "by_os_family", "os_family", "os_"))

(***************************************************************************)
(* The inventory (Ansible's InventoryData, the collaborator the plugin     *)
(* writes to): hosts, groups, group -> host and group -> group edges, and  *)
(* the variables of each host and group.                                   *)
(***************************************************************************)
EmptyVars == [v \in {} |-> None]
SetVar(vars, k, v) == [x \in DOMAIN vars \cup {k} |-> IF x = k THEN v ELSE vars[x]]

EmptyInventory ==
    [hosts |-> {}, groups |-> {"all", "ungrouped"}, children |-> {}, subgroups |-> {},
     hostvars |-> [h \in {} |-> EmptyVars],
     groupvars |-> [g \in {"all", "ungrouped"} |-> EmptyVars]]

Ok(inv) == [raised |-> FALSE, inv |-> inv]
Raise(inv) == [raised |-> TRUE, inv |-> inv]

\* inventory.add_host(host): a name that is falsy or no string is an error
add_host(inv, host) ==
    IF ~Truthy(host) \/ ~IsStr(host) THEN Raise(inv)
    ELSE IF host.s \in inv.hosts THEN Ok(inv)
    ELSE Ok([inv EXCEPT !.hosts = @ \cup {host.s},
                        !.hostvars = [h \in DOMAIN @ \cup {host.s} |->
                                         IF h = host.s THEN EmptyVars ELSE @[h]]])

\* inventory.add_group(group)
add_group(inv, group) ==
    IF group = "" THEN Raise(inv)
    ELSE IF group \in inv.groups THEN Ok(inv)
    ELSE Ok([inv EXCEPT !.groups = @ \cup {group},
                        !.groupvars = [g \in DOMAIN @ \cup {group} |->
                                          IF g = group THEN EmptyVars ELSE @[g]]])

\* The groups above g
RECURSIVE Ancestors(_, _, _)
Ancestors(inv, frontier, seen) ==
    LET up == {e[1] : e \in {e \in inv.subgroups : e[2] \in frontier}} \ seen IN
    IF up = {} THEN seen ELSE Ancestors(inv, up, seen \cup up)

\* An add_child after which the group holds the new child alone
add_child_exclusive(inv, group, child) ==
    IF group \notin inv.groups \/ child \notin inv.hosts THEN Raise(inv)
    ELSE Ok([inv EXCEPT !.children = {e \in @ : e[1] # group} \cup {<<group, child>>}])

\* inventory.add_child(group, child): the child is looked up among the groups
\* first, then among the hosts
add_child(inv, group, child) ==
    IF group \notin inv.groups THEN Raise(inv)
    ELSE IF child \in inv.groups
    THEN IF group = child THEN Raise(inv)
         ELSE IF <<group, child>> \in inv.subgroups THEN Ok(inv)
         ELSE IF child \in Ancestors(inv, {group}, {}) THEN Raise(inv)
         ELSE Ok([inv EXCEPT !.subgroups = @ \cup {<<group, child>>}])
    ELSE IF child \in inv.hosts
    THEN Ok([inv EXCEPT !.children = @ \cup {<<group, child>>}])
    ELSE Raise(inv)

\* inventory.set_variable(entity, varname, value): a group of that name is
\* preferred to a host of that name
set_variable(inv, entity, varname, value) ==
    IF entity \in inv.groups
    THEN Ok([inv EXCEPT !.groupvars[entity] = SetVar(@, varname, value)])
    ELSE IF entity \in inv.hosts
    THEN Ok([inv EXCEPT !.hostvars[entity] = SetVar(@, varname, value)])
    ELSE Raise(inv)

\* _ensure_group_exists(group_name)
ensure_group_exists(inv, group_name) ==
    IF group_name \notin inv.groups THEN add_group(inv, group_name) ELSE Ok(inv)

(***************************************************************************)
(* Inventory merger: _add_device_to_inventory                              *)
(***************************************************************************)
\* Host variables without the defaults of the connection settings: a record
\* that omits ssh_port or ssh_user computes None for ansible_port and
\* ansible_user
host_vars_no_defaults(device, host_exists) ==
    << <<"ansible_host", GetOr(device, "mgmt_ip", Get(device, "ansible_host"))>>,
       <<"ansible_port", GetOr(device, "ssh_port", Get(device, "ansible_port"))>>,
       <<"ansible_user", GetOr(device, "ssh_user", Get(device, "ansible_user"))>>,
       <<"ansible_password",
         GetOr(device, "ssh_password", Get(device, "ansible_password"))>>,
       <<"ansible_network_os",
         GetOr(device, "os_family", Get(device, "ansible_network_os"))>>,
       <<"ansible_connection", Str("network_cli")>>,
       <<"ansible_ssh_common_args", Str("-o StrictHostKeyChecking=no")>>,
       <<"device_type", Get(device, "device_type")>>,
       <<"vendor", Get(device, "vendor")>>,
       <<"location", Get(device, "location")>>,
       <<"os_family", Get(device, "os_family")>>,
       <<"model", Get(device, "model")>>,
       <<"serial_number", Get(device, "serial_number")>>,
       <<"mgmt_ip", Get(device, "mgmt_ip")>>,
       <<"sync_mode", IF ~host_exists THEN Str("incremental") ELSE Str("updated")>>,
       <<"last_updated", Get(device, "last_updated")>>,
       <<"source", Str("cmdb_orchestration")>> >>
    \o LET keys == SetToSeq(CustomKeys(device))
       IN  [i \in 1..Len(keys) |-> <<keys[i], device[keys[i]]>>]

\* Lines 405-432: the host variables in the order the dict holds them
host_vars(device, host_exists) ==
    << <<"ansible_host", GetOr(device, "mgmt_ip", Get(device, "ansible_host"))>>,
       <<"ansible_port",
         GetOr(device, "ssh_port", GetOr(device, "ansible_port", Num(DefaultSshPort)))>>,
       <<"ansible_user",
         GetOr(device, "ssh_user", GetOr(device, "ansible_user", Str("admin")))>>,
       <<"ansible_password",
         GetOr(device, "ssh_password", Get(device, "ansible_password"))>>,
       <<"ansible_network_os",
         GetOr(device, "os_family", Get(device, "ansible_network_os"))>>,
       <<"ansible_connection", Str("network_cli")>>,
       <<"ansible_ssh_common_args", Str("-o StrictHostKeyChecking=no")>>,
       <<"device_type", Get(device, "device_type")>>,
       <<"vendor", Get(device, "vendor")>>,
       <<"location", Get(device, "location")>>,
       <<"os_family", Get(device, "os_family")>>,
       <<"model", Get(device, "model")>>,
       <<"serial_number", Get(device, "serial_number")>>,
       <<"mgmt_ip", Get(device, "mgmt_ip")>>,
       <<"sync_mode", IF ~host_exists THEN Str("incremental") ELSE Str("updated")>>,
       <<"last_updated", Get(device, "last_updated")>>,
       <<"source", Str("cmdb_orchestration")>> >>
    \o LET keys == SetToSeq(CustomKeys(device))
       IN  [i \in 1..Len(keys) |-> <<keys[i], device[keys[i]]>>]

\* A loop that writes every variable, None included
set_every_variable(r, hostname, vars, i) ==
    LET Step(k, s) == IF s.raised THEN s
                      ELSE set_variable(s.inv, hostname, vars[k][1], vars[k][2])
        Fold[k \in 0..Len(vars)] == IF k = 0 THEN r ELSE Step(k, Fold[k - 1])
    IN  Fold[Len(vars)]

\* A loop that keeps what the host has: a variable is set only when the host
\* does not have it yet (first write wins)
RECURSIVE set_missing_variables(_, _, _, _)
set_missing_variables(r, hostname, vars, i) ==
    IF r.raised \/ i > Len(vars) THEN r
    ELSE set_missing_variables(
             IF /\ vars[i][2] # None
                /\ ~(hostname \in r.inv.hosts /\ hostname \notin r.inv.groups
                     /\ vars[i][1] \in DOMAIN r.inv.hostvars[hostname])
             THEN set_variable(r.inv, hostname, vars[i][1], vars[i][2]) ELSE r,
             hostname, vars, i + 1)

\* Lines 434-437: every variable whose value is not None is set
RECURSIVE SetVariablesFrom(_, _, _, _)
SetVariablesFrom(r, hostname, vars, i) ==
    IF r.raised \/ i > Len(vars) THEN r
    ELSE SetVariablesFrom(
             IF vars[i][2] # None
             THEN set_variable(r.inv, hostname, vars[i][1], vars[i][2]) ELSE r,
             hostname, vars, i + 1)

\* Lines 442-444: each derived group is created when missing and gets the host
RECURSIVE AssignGroupsFrom(_, _, _, _)
AssignGroupsFrom(r, hostname, groups, i) ==
    LET Child(g) == IF g.raised THEN g ELSE add_child(g.inv, groups[i], hostname)
    IN  IF r.raised \/ i > Len(groups) THEN r
        ELSE AssignGroupsFrom(Child(ensure_group_exists(r.inv, groups[i])),
                              hostname, groups, i + 1)

\* A join of `network` that is left out for a host the derived groups
\* already hold
join_network_if_ungrouped(r, hostname) ==
    LET Child(g) == IF g.raised THEN g ELSE add_child(g.inv, "network", hostname)
    IN  IF r.raised THEN r
        ELSE IF \E e \in r.inv.children : e[2] = hostname THEN r
        ELSE Child(ensure_group_exists(r.inv, "network"))

\* Lines 446-448: the host joins the base group `network`
JoinNetwork(r, hostname) ==
    LET Child(g) == IF g.raised THEN g ELSE add_child(g.inv, "network", hostname)
    IN  IF r.raised THEN r ELSE Child(ensure_group_exists(r.inv, "network"))

\* A merger that honours the deletion marker: a record with _state "absent"
\* removes its host; any other record is merged as the plugin merges it
remove_absent_device(inv, device, group_mappings, preserve_existing) ==
    LET Grouped(withvars, device_groups) ==
            IF withvars.raised THEN withvars
            ELSE IF device_groups.raised THEN Raise(withvars.inv)
            ELSE JoinNetwork(AssignGroupsFrom(withvars, device["name"].s,
                                              device_groups.groups, 1),
                             device["name"].s)
        Added(added, host_exists) ==
            IF added.raised THEN added
            ELSE Grouped(SetVariablesFrom(added, device["name"].s,
                                          host_vars(device, host_exists), 1),
                         create_device_groups(device, group_mappings))
        Removed(hostname) ==
            Ok([inv EXCEPT !.hosts = @ \ {hostname},
                           !.children = {e \in @ : e[2] # hostname},
                           !.hostvars = [h \in DOMAIN @ \ {hostname} |-> @[h]]])
    IN  IF ~Has(device, "name") THEN Raise(inv)
        ELSE IF Get(device, "_state") = Str("absent") /\ IsStr(device["name"])
        THEN Removed(device["name"].s)
        ELSE Added(add_host(inv, device["name"]),
                   IsStr(device["name"]) /\ device["name"].s \in inv.hosts)

\* A merger that honours preserve_existing: a host that exists keeps its
\* group memberships, only its variables are updated
merge_preserving_groups(inv, device, group_mappings, preserve_existing) ==
    LET Grouped(withvars, device_groups, host_exists) ==
            IF withvars.raised THEN withvars
            ELSE IF host_exists /\ preserve_existing THEN withvars
            ELSE IF device_groups.raised THEN Raise(withvars.inv)
            ELSE JoinNetwork(AssignGroupsFrom(withvars, device["name"].s,
                                              device_groups.groups, 1),
                             device["name"].s)
        Added(added, host_exists) ==
            IF added.raised THEN added
            ELSE Grouped(SetVariablesFrom(added, device["name"].s,
                                          host_vars(device, host_exists), 1),
                         create_device_groups(device, group_mappings), host_exists)
    IN  IF ~Has(device, "name") THEN Raise(inv)
        ELSE Added(add_host(inv, device["name"]),
                   IsStr(device["name"]) /\ device["name"].s \in inv.hosts)

\* _add_device_to_inventory(device, group_mappings, preserve_existing) on
\* inventory inv: the inventory it leaves, and whether it raised on the way
add_device_to_inventory(inv, device, group_mappings, preserve_existing) ==
    LET Grouped(withvars, device_groups) ==
            IF withvars.raised THEN withvars
            ELSE IF device_groups.raised THEN Raise(withvars.inv)
            ELSE JoinNetwork(AssignGroupsFrom(withvars, device["name"].s,
                                              device_groups.groups, 1),
                             device["name"].s)
        Added(added, host_exists) ==
            IF added.raised THEN added
            ELSE Grouped(SetVariablesFrom(added, device["name"].s,
                                          host_vars(device, host_exists), 1),
                         create_device_groups(device, group_mappings))
    IN  IF ~Has(device, "name") THEN Raise(inv)
        ELSE Added(add_host(inv, device["name"]),
                   IsStr(device["name"]) /\ device["name"].s \in inv.hosts)

(***************************************************************************)
(* Schema validator: _validate_device_data                                 *)
(***************************************************************************)
EmptyDict == [k \in {} |-> None]

\* jsonschema.validate(data, schema) with the schema of lines 189-207:
\* orchestration_data is required and holds a devices array whose items
\* have name, device_type, vendor and mgmt_ip
SchemaValid(raw_data) ==
    /\ "orchestration_data" \in DOMAIN raw_data
    /\ "devices" \in DOMAIN raw_data["orchestration_data"]
    /\ LET devices == raw_data["orchestration_data"]["devices"] IN
       \A i \in 1..Len(devices) :
           \A j \in 1..Len(required_fields) : Has(devices[i], required_fields[j])

\* A hard gate: without a loaded schema file the built-in schema is applied
validate_device_data_hard(cfg, raw_data) ==
    IF ~cfg.has_jsonschema THEN [ok |-> TRUE, nerrors |-> 0]
    ELSE IF SchemaValid(raw_data) THEN [ok |-> TRUE, nerrors |-> 0]
    ELSE [ok |-> FALSE, nerrors |-> 1]

\* _validate_device_data(data): (ok, errors), errors counted
validate_device_data(cfg, raw_data) ==
    IF ~cfg.has_jsonschema THEN [ok |-> TRUE, nerrors |-> 0]
    ELSE IF ~cfg.schema_loaded THEN [ok |-> TRUE, nerrors |-> 0]
    ELSE IF SchemaValid(raw_data) THEN [ok |-> TRUE, nerrors |-> 0]
    ELSE [ok |-> FALSE, nerrors |-> 1]

(***************************************************************************)
(* parse: one inventory sync                                               *)
(***************************************************************************)
Fatal(outcome) ==
    [outcome |-> outcome, devices |-> <<>>, payload |-> <<>>, validated |-> FALSE,
     valid |-> <<>>, errors |-> <<>>]

\* An incremental branch that looks at direct_data before the source variables
incremental_direct_first(cfg, env) ==
    LET Gate(devices, checked, kept) ==
            [outcome |-> validate_incremental_safety(kept, cfg.safety_mode),
             devices |-> kept, payload |-> devices, validated |-> TRUE,
             valid |-> checked.valid, errors |-> checked.errors]
        Checked(devices, checked) ==
            IF checked.raised THEN [Fatal("exception") EXCEPT !.payload = devices]
            ELSE IF Len(checked.errors) > 0 /\ Len(checked.valid) = 0
            THEN [Fatal("validation") EXCEPT !.payload = devices, !.validated = TRUE,
                                             !.errors = checked.errors]
            ELSE Gate(devices, checked,
                      IF Len(checked.errors) > 0 THEN checked.valid ELSE devices)
        Schema(raw_data, devices) ==
            IF ~validate_device_data(cfg, raw_data).ok
            THEN [Fatal("schema") EXCEPT !.payload = devices]
            ELSE Checked(devices, validate_individual_devices(devices))
        source_vars == env.source_vars
        direct_data == env.direct_data
    IN  IF DOMAIN direct_data # {} /\ "devices" \in DOMAIN direct_data
        THEN Schema([k \in {"orchestration_data"} |-> direct_data], direct_data["devices"])
        ELSE IF DOMAIN source_vars # {} /\ "orchestration_data" \in DOMAIN source_vars
        THEN Schema(source_vars,
                    IF "devices" \in DOMAIN source_vars["orchestration_data"]
                    THEN source_vars["orchestration_data"]["devices"] ELSE <<>>)
        ELSE Fatal("noop")

\* Lines 479-514: the incremental branch up to the safety gate
IncrementalDevices(cfg, env) ==
    LET Gate(devices, checked, kept) ==
            [outcome |-> validate_incremental_safety(kept, cfg.safety_mode),
             devices |-> kept, payload |-> devices, validated |-> TRUE,
             valid |-> checked.valid, errors |-> checked.errors]
        Checked(devices, checked) ==
            IF checked.raised THEN [Fatal("exception") EXCEPT !.payload = devices]
            ELSE IF Len(checked.errors) > 0 /\ Len(checked.valid) = 0
            THEN [Fatal("validation") EXCEPT !.payload = devices, !.validated = TRUE,
                                             !.errors = checked.errors]
            ELSE Gate(devices, checked,
                      IF Len(checked.errors) > 0 THEN checked.valid ELSE devices)
        Schema(raw_data, devices) ==
            IF ~validate_device_data(cfg, raw_data).ok
            THEN [Fatal("schema") EXCEPT !.payload = devices]
            ELSE Checked(devices, validate_individual_devices(devices))
        source_vars == env.source_vars
        direct_data == env.direct_data
    IN  IF DOMAIN source_vars # {} /\ "orchestration_data" \in DOMAIN source_vars
        THEN Schema(source_vars,
                    IF "devices" \in DOMAIN source_vars["orchestration_data"]
                    THEN source_vars["orchestration_data"]["devices"] ELSE <<>>)
        ELSE IF DOMAIN direct_data # {} /\ "devices" \in DOMAIN direct_data
        THEN Schema([k \in {"orchestration_data"} |-> direct_data], direct_data["devices"])
        ELSE Fatal("noop")

\* A full-sync branch that hands the fetched devices to the safety gate
full_sync_gated(cfg, env) ==
    IF ~Truthy(cfg.cmdb_endpoint) THEN Fatal("no_endpoint")
    ELSE IF ~env.cmdb.ok THEN Fatal("fetch_failed")
    ELSE LET devices == IF "devices" \in DOMAIN env.cmdb.response
                        THEN env.cmdb.response["devices"] ELSE <<>>
         IN  [outcome |-> validate_incremental_safety(devices, cfg.safety_mode),
              devices |-> devices, payload |-> devices,
              validated |-> FALSE, valid |-> <<>>, errors |-> <<>>]

\* Lines 470-477: the full-sync branch
FullSyncDevices(cfg, env) ==
    IF ~Truthy(cfg.cmdb_endpoint) THEN Fatal("no_endpoint")
    ELSE IF ~env.cmdb.ok THEN Fatal("fetch_failed")
    ELSE LET devices == IF "devices" \in DOMAIN env.cmdb.response
                        THEN env.cmdb.response["devices"] ELSE <<>>
         IN  [outcome |-> "ok", devices |-> devices, payload |-> devices,
              validated |-> FALSE, valid |-> <<>>, errors |-> <<>>]

\* A loop that a failing merge ends: the devices after it are not looked at
RECURSIVE process_until_failure(_, _, _, _)
process_until_failure(st, devices, cfg, i) ==
    LET Merged(merged) ==
            IF merged.raised
            THEN [st EXCEPT !.inv = merged.inv, !.skipped = @ + 1,
                            !.log = Append(@, "failed")]
            ELSE process_until_failure(
                     [st EXCEPT !.inv = merged.inv, !.processed = @ + 1,
                                !.log = Append(@, "merged")], devices, cfg, i + 1)
        Device(device) ==
            IF ~Truthy(Get(device, "name"))
            THEN process_until_failure(
                     [st EXCEPT !.skipped = @ + 1, !.log = Append(@, "no_name")],
                     devices, cfg, i + 1)
            ELSE IF ~apply_filters(device, cfg.filters)
            THEN process_until_failure(
                     [st EXCEPT !.skipped = @ + 1, !.log = Append(@, "filtered")],
                     devices, cfg, i + 1)
            ELSE Merged(add_device_to_inventory(
                            st.inv, device, cfg.group_mappings,
                            Truthy(GetOr(cfg.safety_mode, "preserve_existing_groups",
                                         Bool(TRUE)))))
    IN  IF i > Len(devices) THEN st ELSE Device(devices[i])

\* A loop that leaves the filtered-out devices out of the skipped count
RECURSIVE process_filtered_uncounted(_, _, _, _)
process_filtered_uncounted(st, devices, cfg, i) ==
    LET Merged(merged) ==
            IF merged.raised
            THEN [st EXCEPT !.inv = merged.inv, !.skipped = @ + 1,
                            !.log = Append(@, "failed")]
            ELSE [st EXCEPT !.inv = merged.inv, !.processed = @ + 1,
                            !.log = Append(@, "merged")]
        Device(device) ==
            IF ~Truthy(Get(device, "name"))
            THEN [st EXCEPT !.skipped = @ + 1, !.log = Append(@, "no_name")]
            ELSE IF ~apply_filters(device, cfg.filters)
            THEN [st EXCEPT !.log = Append(@, "filtered")]
            ELSE Merged(add_device_to_inventory(
                            st.inv, device, cfg.group_mappings,
                            Truthy(GetOr(cfg.safety_mode, "preserve_existing_groups",
                                         Bool(TRUE)))))
    IN  IF i > Len(devices) THEN st
        ELSE process_filtered_uncounted(Device(devices[i]), devices, cfg, i + 1)

\* A loop with a per-device rollback: a merge that raises leaves the
\* inventory as it was before that device
RECURSIVE process_with_rollback(_, _, _, _)
process_with_rollback(st, devices, cfg, i) ==
    LET Merged(merged) ==
            IF merged.raised
            THEN [st EXCEPT !.skipped = @ + 1, !.log = Append(@, "failed")]
            ELSE [st EXCEPT !.inv = merged.inv, !.processed = @ + 1,
                            !.log = Append(@, "merged")]
        Device(device) ==
            IF ~Truthy(Get(device, "name"))
            THEN [st EXCEPT !.skipped = @ + 1, !.log = Append(@, "no_name")]
            ELSE IF ~apply_filters(device, cfg.filters)
            THEN [st EXCEPT !.skipped = @ + 1, !.log = Append(@, "filtered")]
            ELSE Merged(add_device_to_inventory(
                            st.inv, device, cfg.group_mappings,
                            Truthy(GetOr(cfg.safety_mode, "preserve_existing_groups",
                                         Bool(TRUE)))))
    IN  IF i > Len(devices) THEN st
        ELSE process_with_rollback(Device(devices[i]), devices, cfg, i + 1)

\* Lines 524-545: the per-device loop
RECURSIVE ProcessFrom(_, _, _, _)
ProcessFrom(st, devices, cfg, i) ==
    LET Merged(merged) ==
            IF merged.raised
            THEN [st EXCEPT !.inv = merged.inv, !.skipped = @ + 1,
                            !.log = Append(@, "failed")]
            ELSE [st EXCEPT !.inv = merged.inv, !.processed = @ + 1,
                            !.log = Append(@, "merged")]
        Device(device) ==
            IF ~Truthy(Get(device, "name"))
            THEN [st EXCEPT !.skipped = @ + 1, !.log = Append(@, "no_name")]
            ELSE IF ~apply_filters(device, cfg.filters)
            THEN [st EXCEPT !.skipped = @ + 1, !.log = Append(@, "filtered")]
            ELSE Merged(add_device_to_inventory(
                            st.inv, device, cfg.group_mappings,
                            Truthy(GetOr(cfg.safety_mode, "preserve_existing_groups",
                                         Bool(TRUE)))))
    IN  IF i > Len(devices) THEN st
        ELSE ProcessFrom(Device(devices[i]), devices, cfg, i + 1)

\* Lines 551-560: the sync_metadata variable of `all`
sync_metadata(cfg, env, processed_count, skipped_count) ==
    [sync_mode |-> cfg.sync_mode,
     processed_devices |-> processed_count,
     skipped_devices |-> skipped_count,
     sync_timestamp |-> env.now \o "Z",
     safety_restrictions |->
         [deletions_allowed |-> GetOr(cfg.safety_mode, "allow_deletions", Bool(FALSE)),
          preserve_existing |->
              GetOr(cfg.safety_mode, "preserve_existing_groups", Bool(TRUE))]]

\* Lines 469-517: the devices of the run, or the error that ends it
AcquireDevices(cfg, env) ==
    IF cfg.sync_mode = "full_sync" THEN FullSyncDevices(cfg, env)
    ELSE IF cfg.sync_mode = "incremental" THEN IncrementalDevices(cfg, env)
    ELSE Fatal("invalid_mode")

\* A stop that still records the run in sync_metadata
stopped_with_metadata(inv, got) ==
    [inv |-> set_variable(inv, "all", "sync_metadata",
                          [sync_mode |-> "aborted", error |-> got.outcome]).inv,
     outcome |-> got.outcome, payload |-> got.payload,
     devices |-> got.devices, validated |-> got.validated,
     valid |-> got.valid, errors |-> got.errors,
     processed |-> 0, skipped |-> 0, log |-> <<>>]

\* What parse leaves when it stopped before the loop
Stopped(inv, got) ==
    [inv |-> inv, outcome |-> got.outcome, payload |-> got.payload,
     devices |-> got.devices, validated |-> got.validated,
     valid |-> got.valid, errors |-> got.errors,
     processed |-> 0, skipped |-> 0, log |-> <<>>]

\* A metadata write that adds this run's processed count to the one recorded
completed_accumulating(inv, cfg, env, got) ==
    LET Earlier(vars) ==
            IF "sync_metadata" \in DOMAIN vars THEN vars["sync_metadata"].processed_devices
            ELSE 0
        Recorded(done) ==
            [inv |-> set_variable(done.inv, "all", "sync_metadata",
                         [sync_metadata(cfg, env, done.processed, done.skipped)
                              EXCEPT !.processed_devices = @ + Earlier(inv.groupvars["all"])]).inv,
             outcome |-> "ok", payload |-> got.payload,
             devices |-> got.devices, validated |-> got.validated,
             valid |-> got.valid, errors |-> got.errors,
             processed |-> done.processed, skipped |-> done.skipped, log |-> done.log]
    IN  Recorded(ProcessFrom([inv |-> inv, processed |-> 0, skipped |-> 0, log |-> <<>>],
                             got.devices, cfg, 1))

\* Lines 519-560: the loop over the devices, then the metadata
Completed(inv, cfg, env, got) ==
    LET Recorded(done) ==
            [inv |-> set_variable(done.inv, "all", "sync_metadata",
                                  sync_metadata(cfg, env, done.processed,
                                                done.skipped)).inv,
             outcome |-> "ok", payload |-> got.payload,
             devices |-> got.devices, validated |-> got.validated,
             valid |-> got.valid, errors |-> got.errors,
             processed |-> done.processed, skipped |-> done.skipped, log |-> done.log]
    IN  Recorded(ProcessFrom([inv |-> inv, processed |-> 0, skipped |-> 0, log |-> <<>>],
                             got.devices, cfg, 1))

\* parse(inventory, loader, path): the inventory after the run and what the
\* run did.  outcome "ok" is a completed run, "noop" the early return of line
\* 492, anything else the error that left parse.
parse(inv, cfg, env) ==
    LET Run(got) ==
            IF got.outcome # "ok" THEN Stopped(inv, got) ELSE Completed(inv, cfg, env, got)
    IN  Run(AcquireDevices(cfg, env))

(***************************************************************************)
(* Inputs: device records, payloads, configurations                        *)
(***************************************************************************)
With(d, k, v) == [x \in DOMAIN d \cup {k} |-> IF x = k THEN v ELSE d[x]]
Without(d, k) == [x \in DOMAIN d \ {k} |-> d[x]]

\* A minimal valid record and a full record of the same host
DevA ==
    [name |-> Str("rtr-01"), device_type |-> Str("router"), vendor |-> Str("cisco"),
     mgmt_ip |-> Str("10.0.0.1")]
DevB ==
    [name |-> Str("rtr-01"), device_type |-> Str("router"), vendor |-> Str("cisco"),
     mgmt_ip |-> Str("10.0.0.9"), location |-> Str("dc1"), os_family |-> Str("ios"),
     ssh_port |-> Num(2222), ssh_user |-> Str("netops"), custom_region |-> Str("west")]
\* A valid record that asks for a deletion
DevC ==
    [name |-> Str("sw-02"), device_type |-> Str("switch"), vendor |-> Str("arista"),
     mgmt_ip |-> Str("core-sw2"), os_family |-> Str("eos"), _state |-> Str("absent")]
\* Invalid records: an unknown vendor; the same with a deletion marker
DevD ==
    [name |-> Str("fw-03"), device_type |-> Str("firewall"), vendor |-> Str("acme"),
     mgmt_ip |-> Str("10.0.0.3")]
DevE ==
    [name |-> Str("old-04"), device_type |-> Str("router"), vendor |-> Str("acme"),
     mgmt_ip |-> Str("10.0.0.4"), _state |-> Str("absent")]
\* A record without a name whose mgmt_ip is a hostname
DevF ==
    [device_type |-> Str("router"), vendor |-> Str("cisco"), mgmt_ip |-> Str("core-sw1")]

\* A valid record whose name is the name of the base group
DevG ==
    [name |-> Str("network"), device_type |-> Str("router"), vendor |-> Str("cisco"),
     mgmt_ip |-> Str("10.0.0.7")]

Records == {DevA, DevB, DevC, DevD, DevE, DevF}

MaxBatch == 3
\* The max_devices_per_sync the configurations set: one less than the
\* longest payload, so that payloads at the limit and one past it exist
SetMaxDevices == MaxBatch - 1

\* Every list of up to MaxBatch records, and the shorter lists that hold DevG
Payloads ==
    UNION {[1..n -> Records] : n \in 0..MaxBatch}
    \cup UNION {[1..n -> Records \cup {DevG}] : n \in 1..(MaxBatch - 1)}

SafetyModes ==
    {EmptyDict,
     [max_devices_per_sync |-> Num(SetMaxDevices)],
     [max_devices_per_sync |-> Num(SetMaxDevices), allow_deletions |-> Bool(TRUE)],
     [allow_deletions |-> Bool(TRUE), preserve_existing_groups |-> Bool(FALSE)]}

FilterSets == {EmptyDict, [vendors |-> <<Str("cisco")>>]}

MappingSets ==
    {EmptyDict,
     [by_vendor |-> Bool(FALSE),
      custom_groups |-> << [name |-> "core", isdict |-> TRUE,
                            criteria |-> [device_type |-> Str("router")]] >>]}

\* A custom group whose criteria value is no dict (a string, say)
MalformedMapping ==
    [custom_groups |-> << [name |-> "bad", isdict |-> FALSE, criteria |-> EmptyDict] >>]

Config(mode, endpoint, safety, filters, mappings, loaded) ==
    [sync_mode |-> mode, cmdb_endpoint |-> endpoint, safety_mode |-> safety,
     filters |-> filters, group_mappings |-> mappings,
     has_jsonschema |-> TRUE, schema_loaded |-> loaded]

Configs ==
    {Config("incremental", None, s, f, m, FALSE) :
         s \in SafetyModes, f \in FilterSets, m \in MappingSets}
    \cup {Config("incremental", None, EmptyDict, EmptyDict, EmptyDict, TRUE),
          [Config("incremental", None, EmptyDict, EmptyDict, EmptyDict, TRUE)
               EXCEPT !.has_jsonschema = FALSE],
          Config("incremental", None, EmptyDict, EmptyDict, MalformedMapping, FALSE)}
    \cup {Config("full_sync", Str("https://cmdb/api/devices"), s, EmptyDict, EmptyDict, FALSE) :
              s \in {EmptyDict, [max_devices_per_sync |-> Num(SetMaxDevices)]}}
    \cup {Config("full_sync", None, EmptyDict, EmptyDict, EmptyDict, FALSE),
          Config("full-sync", None, EmptyDict, EmptyDict, EmptyDict, FALSE)}

\* What a run receives: the injected source variables, the direct_data
\* option, the answer of the CMDB and the clock
Envelope(p) == [k \in {"orchestration_data"} |-> [j \in {"devices"} |-> p]]
Env(source_vars, direct_data, cmdb, now) ==
    [source_vars |-> source_vars, direct_data |-> direct_data, cmdb |-> cmdb, now |-> now]
CmdbFails == [ok |-> FALSE, response |-> EmptyDict]
CmdbReturns(response) == [ok |-> TRUE, response |-> response]
RunTime == "2024-06-02T00:00:00"
SeedTime == "2024-06-01T00:00:00"

\* Payloads for the runs that are given source variables and direct_data
BothPayloads == {<<>>, <<DevB>>, <<Without(DevC, "_state")>>}

Envs ==
    {Env(Envelope(p), EmptyDict, CmdbReturns([j \in {"devices"} |-> p]), RunTime) :
         p \in Payloads}
    \cup {Env(EmptyDict, [j \in {"devices"} |-> p], CmdbFails, RunTime) :
              p \in {q \in Payloads : Len(q) <= 1}}
    \cup {Env(EmptyDict, EmptyDict, CmdbReturns(EmptyDict), RunTime),
          Env([k \in {"orchestration_data"} |-> EmptyDict], EmptyDict, CmdbFails, RunTime)}
    \cup {Env(Envelope(p), [j \in {"devices"} |-> q], CmdbFails, RunTime) :
              p \in BothPayloads, q \in BothPayloads}
    \cup {Env([k \in {"job_id"} |-> EmptyDict], [j \in {"devices"} |-> q],
              CmdbFails, RunTime) : q \in BothPayloads}

\* Inventories a run can start from: the empty one and those an earlier
\* incremental sync of one device left
SeedConfig ==
    Config("incremental", None, [allow_deletions |-> Bool(TRUE)], EmptyDict, EmptyDict, FALSE)
SeedInventories ==
    {EmptyInventory}
    \cup {parse(EmptyInventory, SeedConfig,
                Env(Envelope(<<d>>), EmptyDict, CmdbFails, SeedTime)).inv :
              d \in {DevB, Without(DevC, "_state")}}

(***************************************************************************)
(* The state machine                                                       *)
(***************************************************************************)
VARIABLES
    inventory,  \* the inventory tree the plugin writes to
    pre,        \* the inventory as the current run found it
    config,     \* the options of the inventory source
    env,        \* what the run received
    run,        \* what the run did: outcome, devices, counts
    call        \* a direct call of one of the plugin's functions

vars == <<inventory, pre, config, env, run, call>>

NoCall == [fn |-> "none"]
Idle == [outcome |-> "idle"]

Init ==
    /\ inventory \in SeedInventories
    /\ pre = inventory
    /\ config \in Configs
    /\ env = Env(EmptyDict, EmptyDict, CmdbFails, SeedTime)
    /\ run = Idle
    /\ call = NoCall

\* InventoryModule.parse on the injected inventory
Parse ==
    /\ run.outcome = "idle"
    /\ call.fn = "none"
    /\ \E e \in Envs :
         \E r \in {parse(inventory, config, e)} :
            /\ inventory' = r.inv
            /\ run' = [outcome |-> r.outcome, payload |-> r.payload, devices |-> r.devices,
                       validated |-> r.validated, valid |-> r.valid, errors |-> r.errors,
                       processed |-> r.processed, skipped |-> r.skipped, log |-> r.log]
            /\ env' = e
    /\ pre' = inventory
    /\ UNCHANGED <<config, call>>

Next == Parse

Spec == Init /\ [][Next]_vars

(***************************************************************************)
(* Direct calls of the plugin's functions, as the repository's tests make  *)
(* them (test-schema-validation.py calls _validate_individual_devices on   *)
(* raw payloads)                                                           *)
(***************************************************************************)
\* Raw records beyond those of Records: one more way to fail each rule
RawRecords ==
    Records \cup
    {Without(DevA, "name"),
     With(DevA, "name", Num(5)),
     With(DevA, "name", Str("-bad")),
     With(DevA, "mgmt_ip", Num(7)),
     With(DevA, "mgmt_ip", Str("bad_ip!")),
     With(DevA, "ssh_port", Num(0)),
     With(DevA, "ssh_port", Str("22")),
     With(DevA, "custom_tags", Lst(2))}

RawBatches == UNION {[1..n -> RawRecords] : n \in 0..MaxBatch}

\* A dict with, for each key, the value chosen or no entry
Absent == [present |-> FALSE, v |-> None]
Present(v) == [present |-> TRUE, v |-> v]
DictOf(choice) == [k \in {k \in DOMAIN choice : choice[k].present} |-> choice[k].v]

\* Records and criteria for the filter engine: every field missing or one of
\* two values, every axis missing, empty, or a list of one or two values
FilterDevices ==
    {DictOf(c) : c \in
        [device_type : {Absent, Present(Str("router")), Present(Str("switch"))},
         vendor : {Absent, Present(Str("cisco")), Present(Str("arista"))},
         location : {Absent, Present(Str("dc1")), Present(Str("dc2"))},
         os_family : {Absent, Present(Str("ios")), Present(Str("eos"))}]}

FilterCriteria ==
    {DictOf(c) : c \in
        [device_types : {Absent, Present(<<>>), Present(<<Str("router")>>),
                         Present(<<Str("router"), Str("switch")>>)},
         vendors : {Absent, Present(<<>>), Present(<<Str("cisco")>>),
                    Present(<<Str("cisco"), Str("arista")>>)},
         locations : {Absent, Present(<<>>), Present(<<Str("dc1")>>),
                      Present(<<Str("dc1"), Str("dc2")>>)},
         os_families : {Absent, Present(<<>>), Present(<<Str("ios")>>),
                        Present(<<Str("ios"), Str("eos")>>)}]}

\* Records and mappings for the merger: every classification field missing,
\* empty or set; every static flag missing, true or false
MergeDevices ==
    {DictOf(c) : c \in
        [name : {Present(Str("rtr-01"))},
         mgmt_ip : {Present(Str("10.0.0.1"))},
         vendor : {Absent, Present(Str("")), Present(Str("cisco"))},
         location : {Absent, Present(Str("")), Present(Str("dc1"))},
         device_type : {Absent, Present(Str("")), Present(Str("router"))},
         os_family : {Absent, Present(Str("")), Present(Str("ios"))}]}

MergeMappings ==
    {DictOf(c) : c \in
        [by_vendor : {Absent, Present(Bool(TRUE)), Present(Bool(FALSE))},
         by_location : {Absent, Present(Bool(TRUE)), Present(Bool(FALSE))},
         by_device_type : {Absent, Present(Bool(TRUE)), Present(Bool(FALSE))},
         by_os_family : {Absent, Present(Bool(TRUE)), Present(Bool(FALSE))}]}

InitCalls ==
    /\ inventory \in SeedInventories
    /\ pre = inventory
    /\ config = SeedConfig
    /\ env = Env(EmptyDict, EmptyDict, CmdbFails, SeedTime)
    /\ run = Idle
    /\ call = NoCall

\* plugin._validate_individual_devices(devices)
ValidateCall ==
    /\ call.fn = "none"
    /\ inventory = EmptyInventory
    /\ \E b \in RawBatches :
         call' = [fn |-> "validate", devices |-> b,
                  result |-> validate_individual_devices(b)]
    /\ UNCHANGED <<inventory, pre, config, env, run>>

\* plugin._apply_filters(device, filters)
FilterCall ==
    /\ call.fn = "none"
    /\ inventory = EmptyInventory
    /\ \E d \in FilterDevices, f \in FilterCriteria :
         call' = [fn |-> "filter", device |-> d, filters |-> f,
                  result |-> apply_filters(d, f)]
    /\ UNCHANGED <<inventory, pre, config, env, run>>

\* plugin._add_device_to_inventory(device, group_mappings, preserve_existing)
MergeCall ==
    /\ call.fn = "none"
    /\ \E d \in MergeDevices, gm \in MergeMappings :
         \E r \in {add_device_to_inventory(inventory, d, gm, TRUE)} :
            /\ inventory' = r.inv
            /\ call' = [fn |-> "add_device", device |-> d, group_mappings |-> gm,
                        raised |-> r.raised]
    /\ pre' = inventory
    /\ UNCHANGED <<config, env, run>>

\* The same call once more: the same record and mappings on the inventory the
\* first call left
MergeAgain ==
    /\ call.fn = "add_device"
    /\ \E r \in {add_device_to_inventory(inventory, call.device, call.group_mappings, TRUE)} :
          /\ inventory' = r.inv
          /\ call' = [fn |-> "add_device_again", device |-> call.device,
                      group_mappings |-> call.group_mappings, raised |-> r.raised,
                      first |-> inventory, first_raised |-> call.raised]
    /\ UNCHANGED <<pre, config, env, run>>

(***************************************************************************)
(* The discovery variants: the network_devices plugin and the              *)
(* network-inventory.py script, which filter a fixed device catalog        *)
(***************************************************************************)
\* device_definitions: the catalog, each entry with the name of its container
device_definitions ==
    {[container |-> Str("ios-router"), hostname |-> Str("ios-rtr-01"),
      os_type |-> Str("ios"), device_type |-> Str("router"), vendor |-> Str("cisco"),
      model |-> Str("CSR1000v"), ssh_port |-> Num(2201), ssh_user |-> Str("root"),
      ssh_password |-> Str("cisco123"), mgmt_ip |-> Str("192.168.100.11")],
     [container |-> Str("iosxr-router"), hostname |-> Str("iosxr-rtr-01"),
      os_type |-> Str("iosxr"), device_type |-> Str("router"), vendor |-> Str("cisco"),
      model |-> Str("ASR9k"), ssh_port |-> Num(2202), ssh_user |-> Str("root"),
      ssh_password |-> Str("cisco123"), mgmt_ip |-> Str("192.168.100.12")],
     [container |-> Str("nxos-switch"), hostname |-> Str("nxos-sw-01"),
      os_type |-> Str("nxos"), device_type |-> Str("switch"), vendor |-> Str("cisco"),
      model |-> Str("Nexus9000"), ssh_port |-> Num(2203), ssh_user |-> Str("root"),
      ssh_password |-> Str("cisco123"), mgmt_ip |-> Str("192.168.100.13")],
     [container |-> Str("eos-switch"), hostname |-> Str("eos-sw-01"),
      os_type |-> Str("eos"), device_type |-> Str("switch"), vendor |-> Str("arista"),
      model |-> Str("7050SX"), ssh_port |-> Num(2204), ssh_user |-> Str("root"),
      ssh_password |-> Str("arista123"), mgmt_ip |-> Str("192.168.100.14")]}

\* One axis of network_devices._apply_filters
DiscoveryAxisPasses(device_info, filters, axis, field) ==
    LET lst == AxisList(filters, axis) IN
    ~(Len(lst) > 0 /\ device_info[field] \notin Range(lst))

\* network_devices.InventoryModule._apply_filters(device_info, filters)
network_devices_apply_filters(device_info, filters) ==
    IF DOMAIN filters = {} THEN TRUE
    ELSE /\ DiscoveryAxisPasses(device_info, filters, "os_types", "os_type")
         /\ DiscoveryAxisPasses(device_info, filters, "device_types", "device_type")
         /\ DiscoveryAxisPasses(device_info, filters, "vendors", "vendor")

\* NetworkInventory._apply_filters(device_info, filters) of
\* network-inventory.py: the first filter that is given decides
network_inventory_apply_filters(device_info, filters) ==
    IF DOMAIN filters = {} THEN TRUE
    ELSE IF "cisco_only" \in DOMAIN filters /\ Truthy(filters["cisco_only"])
    THEN device_info["vendor"] = Str("cisco")
    ELSE IF "device_types" \in DOMAIN filters
    THEN device_info["device_type"] \in Range(filters["device_types"])
    ELSE IF "os_types" \in DOMAIN filters
    THEN device_info["os_type"] \in Range(filters["os_types"])
    ELSE TRUE

(***************************************************************************)
(* parse of the network_devices plugin: one discovery run                  *)
(***************************************************************************)
\* The containers in the order device_definitions.items() gives them
definition_order == <<"ios-router", "iosxr-router", "nxos-switch", "eos-switch">>
DeviceInfo(container_name) ==
    CHOOSE d \in device_definitions : d.container = Str(container_name)

\* Lines 238-247: the base groups
base_groups ==
    <<"all", "network", "routers", "switches", "cisco", "arista", "ios", "iosxr",
      "nxos", "eos">>

\* Lines 276-295: the variables of a discovered host, compose applied
discovery_host_vars(container_name, device_info, compose_vars) ==
    LET base ==
            [ansible_host |-> Str("localhost"),
             ansible_port |-> device_info["ssh_port"],
             ansible_user |-> device_info["ssh_user"],
             ansible_password |-> device_info["ssh_password"],
             ansible_network_os |-> device_info["os_type"],
             ansible_connection |-> Str("network_cli"),
             ansible_ssh_common_args |-> Str("-o StrictHostKeyChecking=no"),
             device_type |-> device_info["device_type"],
             vendor |-> device_info["vendor"],
             model |-> device_info["model"],
             mgmt_ip |-> device_info["mgmt_ip"],
             os_type |-> device_info["os_type"],
             lab_container |-> Str("network-" \o container_name),
             environment |-> Str("lab")]
    IN  [k \in DOMAIN base \cup DOMAIN compose_vars |->
            IF k \in DOMAIN compose_vars THEN compose_vars[k] ELSE base[k]]

\* A sequence of inventory calls ends at the first one that raises
RECURSIVE AddGroupsFrom(_, _, _)
AddGroupsFrom(r, names, i) ==
    IF r.raised \/ i > Len(names) THEN r
    ELSE AddGroupsFrom(add_group(r.inv, names[i]), names, i + 1)

\* Lines 298-299: every variable is set
RECURSIVE SetAllVariablesFrom(_, _, _, _, _)
SetAllVariablesFrom(r, hostname, vars_, names, i) ==
    IF r.raised \/ i > Len(names) THEN r
    ELSE SetAllVariablesFrom(set_variable(r.inv, hostname, names[i], vars_[names[i]]),
                             hostname, vars_, names, i + 1)

\* Lines 305-309, 312-316, 319-323: the host joins a group, created when
\* missing, and the group becomes a child of `network`
JoinGroup(r, group, hostname) ==
    LET Nested(g) == IF g.raised THEN g ELSE add_child(g.inv, "network", group)
        Child(g) == IF g.raised THEN g ELSE Nested(add_child(g.inv, group, hostname))
    IN  IF r.raised THEN r ELSE Child(ensure_group_exists(r.inv, group))

\* Lines 270-325: a device that passed the three checks becomes a host
AddDiscovered(inv, container_name, device_info, compose_vars) ==
    LET hostname == device_info["hostname"].s
        Network(r) == IF r.raised THEN r ELSE add_child(r.inv, "network", hostname)
        Grouped(r) ==
            JoinGroup(JoinGroup(JoinGroup(Network(r), device_info["os_type"].s, hostname),
                                device_info["device_type"].s \o "s", hostname),
                      device_info["vendor"].s, hostname)
        WithVars(r, hv) ==
            IF r.raised THEN r
            ELSE Grouped(SetAllVariablesFrom(r, hostname, hv, SetToSeq(DOMAIN hv), 1))
    IN  WithVars(add_host(inv, device_info["hostname"]),
                 discovery_host_vars(container_name, device_info, compose_vars))

\* Lines 254-325: the loop over the catalog.  probe tells, for each container,
\* whether it is down, running with its SSH port closed, or up; bound tells
\* whether the local name host_vars has been assigned
RECURSIVE DiscoverFrom(_, _, _, _)
DiscoverFrom(st, opts, probe, i) ==
    LET Added(r) ==
            [inv |-> r.inv, raised |-> r.raised, bound |-> TRUE,
             discovered |-> st.discovered + 1]
        Device(c) ==
            IF probe[c] = "down" THEN st
            ELSE IF probe[c] # "up" THEN st
            ELSE IF ~network_devices_apply_filters(DeviceInfo(c), opts.filters) THEN st
            ELSE Added(AddDiscovered(st.inv, c, DeviceInfo(c), opts.compose))
    IN  IF st.raised \/ i > Len(definition_order) THEN st
        ELSE DiscoverFrom(Device(definition_order[i]), opts, probe, i + 1)

\* _add_keyed_groups(group_def, host_vars): host_vars is not read
RECURSIVE KeyedGroupHostsFrom(_, _, _, _)
KeyedGroupHostsFrom(r, group_def, hosts, i) ==
    LET prefix == GetOr(group_def, "prefix", Str(""))
        separator == GetOr(group_def, "separator", Str("_"))
        GroupName(value) ==
            IF Truthy(prefix) THEN Fmt(prefix) \o Fmt(separator) \o Fmt(value)
            ELSE Fmt(value)
        Child(g, group_name) ==
            IF g.raised THEN g ELSE add_child(g.inv, group_name, hosts[i])
        Host(group_name) == Child(add_group(r.inv, group_name), group_name)
    IN  IF r.raised \/ i > Len(hosts) THEN r
        ELSE KeyedGroupHostsFrom(
                 IF group_def["key"].s \in DOMAIN r.inv.hostvars[hosts[i]]
                 THEN Host(GroupName(r.inv.hostvars[hosts[i]][group_def["key"].s]))
                 ELSE r,
                 group_def, hosts, i + 1)

add_keyed_groups(inv, group_def) ==
    IF "key" \notin DOMAIN group_def THEN Ok(inv)
    ELSE KeyedGroupHostsFrom(Ok(inv), group_def, SetToSeq(inv.hosts), 1)

\* Lines 328-329: the argument host_vars is evaluated for each keyed group; it
\* is a local name that only the body of the discovery loop assigns
RECURSIVE KeyedGroupsFrom(_, _, _, _)
KeyedGroupsFrom(r, bound, keyed_groups, i) ==
    IF r.raised \/ i > Len(keyed_groups) THEN r
    ELSE IF ~bound THEN Raise(r.inv)
    ELSE KeyedGroupsFrom(add_keyed_groups(r.inv, keyed_groups[i]), bound,
                         keyed_groups, i + 1)

\* _add_custom_groups(group_name, group_expr)
RECURSIVE CustomGroupHostsFrom(_, _, _, _)
CustomGroupHostsFrom(r, group_name, hosts, i) ==
    IF r.raised \/ i > Len(hosts) THEN r
    ELSE CustomGroupHostsFrom(add_child(r.inv, group_name, hosts[i]),
                              group_name, hosts, i + 1)

add_custom_groups(inv, group_name, group_expr) ==
    LET Hosts(g) ==
            IF g.raised THEN g
            ELSE IF group_expr = Bool(TRUE)
            THEN CustomGroupHostsFrom(g, group_name, SetToSeq(g.inv.hosts), 1)
            ELSE g
    IN  Hosts(add_group(inv, group_name))

\* Lines 332-333: groups is a list of <<name, expression>> in dict order
RECURSIVE CustomGroupsOfRunFrom(_, _, _)
CustomGroupsOfRunFrom(r, groups, i) ==
    IF r.raised \/ i > Len(groups) THEN r
    ELSE CustomGroupsOfRunFrom(add_custom_groups(r.inv, groups[i][1], groups[i][2]),
                               groups, i + 1)

\* network_devices.InventoryModule.parse: the inventory it leaves, whether an
\* exception left it, and the number of devices discovered
discovery_parse(inv, opts, probe) ==
    LET Based(r) == IF r.raised THEN r ELSE add_child(r.inv, "all", "network")
        Finished(st, r) ==
            [inv |-> r.inv, raised |-> r.raised, discovered |-> st.discovered]
        After(st) ==
            IF st.raised THEN Finished(st, Raise(st.inv))
            ELSE Finished(st,
                     CustomGroupsOfRunFrom(
                         KeyedGroupsFrom(Ok(st.inv), st.bound, opts.keyed_groups, 1),
                         opts.groups, 1))
        Loop(r) ==
            After(DiscoverFrom([inv |-> r.inv, raised |-> r.raised, bound |-> FALSE,
                                discovered |-> 0], opts, probe, 1))
    IN  Loop(Based(AddGroupsFrom(Ok(inv), base_groups, 1)))

\* What the probes of a run can answer, and the options of the source
Probes == [Range(definition_order) -> {"down", "closed", "up"}]

DiscoveryOption(filters, compose_vars, keyed_groups, groups) ==
    [filters |-> filters, compose |-> compose_vars, keyed_groups |-> keyed_groups,
     groups |-> groups]
DiscoveryOptions ==
    {DiscoveryOption(EmptyDict, EmptyDict, <<>>, <<>>),
     DiscoveryOption([vendors |-> <<Str("cisco")>>, device_types |-> <<Str("switch")>>],
                     [region |-> Str("lab")], <<>>, << <<"production", Bool(FALSE)>> >>),
     DiscoveryOption(EmptyDict, EmptyDict,
                     << [key |-> Str("vendor"), prefix |-> Str("vendor")],
                        [key |-> Str("device_type"), prefix |-> Str("type")] >>,
                     << <<"lab", Bool(TRUE)>> >>),
     DiscoveryOption([os_types |-> <<Str("ios"), Str("eos")>>], EmptyDict,
                     << [key |-> Str("os_type")] >>, <<>>),
     DiscoveryOption([vendors |-> <<Str("juniper")>>], EmptyDict,
                     << [prefix |-> Str("site")] >>, <<>>)}

\* A run of the network_devices plugin on a fresh inventory
DiscoveryParse ==
    /\ call.fn = "none"
    /\ inventory = EmptyInventory
    /\ \E o \in DiscoveryOptions, p \in Probes :
         \E r \in {discovery_parse(inventory, o, p)} :
            /\ inventory' = r.inv
            /\ call' = [fn |-> "discovery_parse", options |-> o, probe |-> p,
                        raised |-> r.raised, discovered |-> r.discovered]
    /\ pre' = inventory
    /\ UNCHANGED <<config, env, run>>

\* Filters of the plugin: each list missing, empty, or of one or two values
PluginFilters ==
    {DictOf(c) : c \in
        [vendors : {Absent, Present(<<>>), Present(<<Str("cisco")>>),
                    Present(<<Str("arista"), Str("juniper")>>)},
         device_types : {Absent, Present(<<>>), Present(<<Str("router")>>),
                         Present(<<Str("router"), Str("switch")>>)},
         os_types : {Absent, Present(<<>>), Present(<<Str("ios")>>),
                     Present(<<Str("ios"), Str("eos")>>)}]}

\* Filters of the script: its vendor filter is the switch cisco_only
ScriptFilters ==
    {DictOf(c) : c \in
        [cisco_only : {Absent, Present(Bool(TRUE)), Present(Bool(FALSE))},
         device_types : {Absent, Present(<<>>), Present(<<Str("router")>>),
                         Present(<<Str("router"), Str("switch")>>)},
         os_types : {Absent, Present(<<>>), Present(<<Str("ios")>>),
                     Present(<<Str("ios"), Str("eos")>>)}]}

\* plugin._apply_filters(device_info, filters) of network_devices.py
PluginFilterCall ==
    /\ call.fn = "none"
    /\ inventory = EmptyInventory
    /\ \E d \in device_definitions, f \in PluginFilters :
         call' = [fn |-> "discovery_filter", variant |-> "network_devices",
                  device |-> d, filters |-> f,
                  result |-> network_devices_apply_filters(d, f)]
    /\ UNCHANGED <<inventory, pre, config, env, run>>

\* NetworkInventory()._apply_filters(device_info, filters)
ScriptFilterCall ==
    /\ call.fn = "none"
    /\ inventory = EmptyInventory
    /\ \E d \in device_definitions, f \in ScriptFilters :
         call' = [fn |-> "discovery_filter", variant |-> "network-inventory",
                  device |-> d, filters |-> f,
                  result |-> network_inventory_apply_filters(d, f)]
    /\ UNCHANGED <<inventory, pre, config, env, run>>

\* Records and mappings for the group mapper: each classification field
\* missing or set, and up to MaxCustomGroups custom groups in either order
GroupDevices ==
    {DictOf(c) : c \in
        [name : {Present(Str("rtr-01"))},
         vendor : {Absent, Present(Str("cisco")), Present(Str("arista"))},
         location : {Absent, Present(Str("dc1"))},
         device_type : {Absent, Present(Str("router"))},
         os_family : {Absent, Present(Str("ios"))},
         ssh_port : {Absent, Present(Num(22))}]}

CustomGroup(name, criteria) == [name |-> name, isdict |-> TRUE, criteria |-> criteria]
CustomGroupDefs ==
    {CustomGroup("everything", EmptyDict),
     CustomGroup("core", [device_type |-> Str("router")]),
     CustomGroup("dc1_cisco", [vendor |-> Str("cisco"), location |-> Str("dc1")]),
     CustomGroup("dc_prefix", [location |-> Str("dc")]),
     CustomGroup("unlocated", [location |-> None]),
     CustomGroup("ssh22", [ssh_port |-> Num(22)])}

MaxCustomGroups == 2
CustomGroupLists ==
    {cg \in UNION {[1..n -> CustomGroupDefs] : n \in 0..MaxCustomGroups} :
        \A i \in 1..Len(cg) : \A j \in 1..Len(cg) : i # j => cg[i].name # cg[j].name}

GroupMappings ==
    {EmptyDict, [by_location |-> Bool(FALSE)]}
    \cup {[custom_groups |-> cg] : cg \in CustomGroupLists}
    \cup {[by_location |-> Bool(FALSE), custom_groups |-> cg] : cg \in CustomGroupLists}

\* plugin._create_device_groups(device, group_mappings)
GroupsCall ==
    /\ call.fn = "none"
    /\ inventory = EmptyInventory
    /\ \E d \in GroupDevices, gm \in GroupMappings :
         call' = [fn |-> "create_groups", device |-> d, group_mappings |-> gm,
                  result |-> create_device_groups(d, gm)]
    /\ UNCHANGED <<inventory, pre, config, env, run>>

NextCalls ==
    \/ ValidateCall \/ FilterCall \/ MergeCall \/ MergeAgain
    \/ PluginFilterCall \/ ScriptFilterCall \/ GroupsCall \/ DiscoveryParse

CallSpec == InitCalls /\ [][NextCalls]_vars

(***************************************************************************)
(* Properties of one sync (Spec)                                           *)
(***************************************************************************)
\* An incremental run that was handed a payload
Gated == config.sync_mode = "incremental" /\ run.outcome \notin {"idle", "noop"}

\* The limit and the deletion switch in effect
max_devices_per_sync ==
    GetOr(config.safety_mode, "max_devices_per_sync", Num(DefaultMaxDevices)).n
allow_deletions == Truthy(GetOr(config.safety_mode, "allow_deletions", Bool(FALSE)))

\* A record that breaks no field rule, judged on its own
Passes(d) == \E v \in {ValidateDevice(d, 0, TRUE)} : ~v.raised /\ v.ok
MarkedAbsent(d) == Get(d, "_state") = Str("absent")
AllPass(p) == \A i \in 1..Len(p) : Passes(p[i])
NoneAbsent(p) == \A i \in 1..Len(p) : ~MarkedAbsent(p[i])

\* The groups host h is a member of
GroupsOf(inv, h) == {e[1] : e \in {e \in inv.children : e[2] = h}}

\* C1: in incremental mode, with every record valid and none marked absent,
\* a batch of max_devices_per_sync + 1 records is rejected whole and the
\* inventory stays as it was, and a batch of exactly max_devices_per_sync
\* records passes the gate and every record reaches filtering and merge.
SafetyCap ==
    (Gated /\ AllPass(run.payload) /\ NoneAbsent(run.payload)) =>
        /\ Len(run.payload) = max_devices_per_sync + 1 =>
               run.outcome = "safety_size" /\ inventory = pre
        /\ Len(run.payload) = max_devices_per_sync =>
               /\ run.outcome = "ok"
               /\ run.devices = run.payload
               /\ Len(run.log) = Len(run.payload)

\* A batch one past the limit, all valid, rejected on a seeded inventory
SafetyCapRejects ==
    /\ Gated /\ AllPass(run.payload) /\ NoneAbsent(run.payload)
    /\ Len(run.payload) = max_devices_per_sync + 1
    /\ run.outcome = "safety_size"
    /\ inventory.hosts # {}

\* C2: in incremental mode a supplied payload longer than
\* max_devices_per_sync never completes and creates or changes nothing,
\* whatever the validity of its records.
OverLimitPayloadAborts ==
    (Gated /\ Len(run.payload) > max_devices_per_sync) =>
        run.outcome # "ok" /\ inventory = pre

\* C3: in incremental mode with allow_deletions false, a payload holding a
\* record marked absent fails before anything is merged; with allow_deletions
\* true the gate does not reject it for the marker.
DeletionGate ==
    (Gated /\ \E i \in 1..Len(run.payload) : MarkedAbsent(run.payload[i])) =>
        IF allow_deletions THEN run.outcome # "safety_deletion"
        ELSE run.outcome # "ok" /\ inventory = pre

\* C4: an incremental run never removes a host, a group or a membership,
\* also with allow_deletions true and records marked absent.
IncrementalNeverDeletes ==
    (config.sync_mode = "incremental" /\ run.outcome # "idle") =>
        /\ pre.hosts \subseteq inventory.hosts
        /\ pre.groups \subseteq inventory.groups
        /\ pre.children \subseteq inventory.children
        /\ pre.subgroups \subseteq inventory.subgroups

\* A completed run with deletions allowed whose payload marks an existing
\* host absent
AbsentHostKept ==
    /\ config.sync_mode = "incremental" /\ allow_deletions
    /\ run.outcome = "ok"
    /\ \E i \in 1..Len(run.devices) :
           /\ MarkedAbsent(run.devices[i])
           /\ run.log[i] = "merged"
           /\ run.devices[i]["name"].s \in pre.hosts
           /\ run.devices[i]["name"].s \in inventory.hosts

\* C5: a run stopped by a fatal condition (no cmdb_endpoint, fetch failure,
\* invalid sync_mode, schema failure, validation leaving no record, safety
\* violation) leaves the inventory, sync_metadata included, as it found it.
FatalOutcomes ==
    {"no_endpoint", "fetch_failed", "invalid_mode", "schema", "validation",
     "safety_size", "safety_deletion"}
FatalLeavesInventory ==
    run.outcome \in FatalOutcomes =>
        /\ inventory = pre
        /\ run.processed = 0 /\ run.log = <<>>

\* A deletion rejected on an inventory that holds an earlier sync
FatalOnSeededInventory ==
    /\ run.outcome = "safety_deletion"
    /\ pre.hosts # {}
    /\ "sync_metadata" \in DOMAIN pre.groupvars["all"]
    /\ inventory = pre

\* C7: in incremental mode, when at least one record of the payload is
\* valid, field validation does not end the run, and a run that completes
\* has worked on exactly the valid records, in payload order.
ValidationAbortsOnlyWhenNoneValid ==
    (Gated /\ run.outcome # "schema"
           /\ \E i \in 1..Len(run.payload) : Passes(run.payload[i])) =>
        /\ run.outcome \notin {"validation", "exception"}
        /\ run.outcome = "ok" => run.devices = SelectSeq(run.payload, Passes)

(***************************************************************************)
(* Properties of the plugin's functions (CallSpec)                         *)
(***************************************************************************)
\* C6: validating N records of which M < N break a rule returns the N-M
\* others, unchanged and in order, and M errors; whether a record is
\* returned depends on that record alone.
Quarantine ==
    (call.fn = "validate"
     /\ \E i \in 1..Len(call.devices) : Passes(call.devices[i])) =>
        /\ ~call.result.raised
        /\ call.result.valid = SelectSeq(call.devices, Passes)
        /\ Len(call.result.errors) + Len(call.result.valid) = Len(call.devices)

\* C8: _validate_individual_devices returns for every batch of raw records.
ValidatorNeverRaises ==
    call.fn = "validate" => ~call.result.raised

\* C9: _apply_filters is true iff every axis with a non-empty list holds the
\* record's field; a record without the field of such an axis fails.
FilterAxes ==
    {<<"device_types", "device_type">>, <<"vendors", "vendor">>,
     <<"locations", "location">>, <<"os_families", "os_family">>}
FilterConjunction ==
    call.fn = "filter" =>
        (call.result <=>
            \A a \in FilterAxes :
                (a[1] \in DOMAIN call.filters /\ call.filters[a[1]] # <<>>) =>
                    /\ a[2] \in DOMAIN call.device
                    /\ \E j \in 1..Len(call.filters[a[1]]) :
                           call.filters[a[1]][j] = call.device[a[2]])

\* Two constrained axes, one met and one whose field the record lacks
FilterRejectsMissingField ==
    /\ call.fn = "filter"
    /\ ~call.result
    /\ \E a \in FilterAxes :
           /\ a[1] \in DOMAIN call.filters /\ call.filters[a[1]] # <<>>
           /\ a[2] \notin DOMAIN call.device
    /\ \A a \in FilterAxes :
           a[2] \in DOMAIN call.device =>
               /\ a[1] \in DOMAIN call.filters
               /\ call.device[a[2]] \in Range(call.filters[a[1]])

\* C10: after a merge the host is in the groups it was in, in `network`, and
\* in the group of each static axis that is enabled and whose field is
\* present and non-empty; for cisco / dc1 / router / ios with every axis
\* enabled that is {vendor_cisco, location_dc1, type_router, os_ios, network}.
StaticAxes ==
    {<<"by_vendor", "vendor", "vendor_">>, <<"by_location", "location", "location_">>,
     <<"by_device_type", "device_type", "type_">>, <<"by_os_family", "os_family", "os_">>}
AxisEnabled(gm, flag) == flag \notin DOMAIN gm \/ gm[flag] = Bool(TRUE)
DerivedGroups(d, gm) ==
    {a[3] \o d[a[2]].s :
        a \in {a \in StaticAxes : /\ AxisEnabled(gm, a[1])
                                  /\ a[2] \in DOMAIN d
                                  /\ d[a[2]] # Str("")}}
CiscoDc1RouterIos(d) ==
    /\ Get(d, "vendor") = Str("cisco") /\ Get(d, "location") = Str("dc1")
    /\ Get(d, "device_type") = Str("router") /\ Get(d, "os_family") = Str("ios")
GroupDerivation ==
    (call.fn = "add_device" /\ ~call.raised) =>
        /\ GroupsOf(inventory, call.device["name"].s) =
               GroupsOf(pre, call.device["name"].s) \cup {"network"}
               \cup DerivedGroups(call.device, call.group_mappings)
        /\ (/\ CiscoDc1RouterIos(call.device)
            /\ \A a \in StaticAxes : AxisEnabled(call.group_mappings, a[1])) =>
               GroupsOf(inventory, call.device["name"].s) =
                   {"vendor_cisco", "location_dc1", "type_router", "os_ios", "network"}

\* The cisco / dc1 / router / ios device merged as a new host, one switch
\* left at its default
FiveGroupsDerived ==
    /\ call.fn = "add_device" /\ ~call.raised
    /\ CiscoDc1RouterIos(call.device)
    /\ \A a \in StaticAxes : AxisEnabled(call.group_mappings, a[1])
    /\ "by_vendor" \notin DOMAIN call.group_mappings
    /\ call.device["name"].s \notin pre.hosts
    /\ GroupsOf(inventory, call.device["name"].s) =
           {"vendor_cisco", "location_dc1", "type_router", "os_ios", "network"}

\* C11: upserting the same record with the same mappings a second time leaves
\* the inventory - hosts, groups, memberships, every host variable - as the
\* first upsert left it.
MergerIdempotent ==
    (call.fn = "add_device_again" /\ ~call.first_raised /\ ~call.raised) =>
        /\ inventory.hosts = call.first.hosts
        /\ inventory.groups = call.first.groups
        /\ inventory.children = call.first.children
        /\ inventory.subgroups = call.first.subgroups
        /\ inventory.hostvars = call.first.hostvars

\* C12: a valid device merged twice is one host, in each derived group and in
\* `network` and in no other, and every variable it has holds the value the
\* record gives: the identity fields, and the connection settings with their
\* defaults.
RecordVars(d) ==
    [k \in {"ansible_host", "mgmt_ip", "device_type", "vendor"}
           \cup ({"location", "os_family"} \cap DOMAIN d)
           \cup (IF "os_family" \in DOMAIN d THEN {"ansible_network_os"} ELSE {})
           \cup {"ansible_port", "ansible_user", "ansible_connection",
                 "ansible_ssh_common_args", "source"} |->
        CASE k \in {"ansible_host"} -> d["mgmt_ip"]
          [] k = "ansible_network_os" -> d["os_family"]
          [] k = "ansible_port" -> GetOr(d, "ssh_port", Num(22))
          [] k = "ansible_user" -> GetOr(d, "ssh_user", Str("admin"))
          [] k = "ansible_connection" -> Str("network_cli")
          [] k = "ansible_ssh_common_args" -> Str("-o StrictHostKeyChecking=no")
          [] k = "source" -> Str("cmdb_orchestration")
          [] OTHER -> d[k]]
MergedTwiceOnce ==
    (/\ call.fn = "add_device_again"
     /\ Passes(call.device)
     /\ call.device["name"].s \notin pre.hosts) =>
        /\ ~call.first_raised /\ ~call.raised
        /\ inventory.hosts = pre.hosts \cup {call.device["name"].s}
        /\ GroupsOf(inventory, call.device["name"].s) =
               {"network"} \cup DerivedGroups(call.device, call.group_mappings)
        /\ \A k \in DOMAIN RecordVars(call.device) :
               /\ k \in DOMAIN inventory.hostvars[call.device["name"].s]
               /\ inventory.hostvars[call.device["name"].s][k] = RecordVars(call.device)[k]
        /\ DOMAIN inventory.hostvars[call.device["name"].s] =
               DOMAIN RecordVars(call.device) \cup {"sync_mode"}

\* rtr-01 with a location and an os_family merged twice into an inventory
\* that holds another host
MergedTwiceWitness ==
    /\ call.fn = "add_device_again" /\ ~call.raised
    /\ Passes(call.device)
    /\ pre.hosts = {"sw-02"}
    /\ inventory.hosts = {"sw-02", "rtr-01"}
    /\ {"location", "os_family"} \subseteq DOMAIN call.device
    /\ inventory.hostvars["rtr-01"]["ansible_network_os"] = Str("ios")

(***************************************************************************)
(* Further properties of one sync (Spec)                                   *)
(***************************************************************************)
\* The positions of the run's devices that the merger added
MergedAt == {i \in 1..Len(run.log) : run.log[i] = "merged"}
DefaultOptions ==
    /\ config.safety_mode = EmptyDict
    /\ config.filters = EmptyDict
    /\ config.group_mappings = EmptyDict

\* C13: an incremental run with default options on an empty inventory, given
\* the single device rtr-01 / router / cisco / 10.0.0.1, ends with the one
\* host rtr-01 in exactly {network, vendor_cisco, type_router}, without an
\* ansible_network_os variable, and sync_metadata counting 1 processed and 0
\* skipped.
Rtr01Scenario ==
    (/\ config.sync_mode = "incremental" /\ DefaultOptions
     /\ pre = EmptyInventory
     /\ run.outcome # "idle"
     /\ run.payload = <<DevA>>) =>
        /\ run.outcome = "ok"
        /\ inventory.hosts = {"rtr-01"}
        /\ GroupsOf(inventory, "rtr-01") = {"network", "vendor_cisco", "type_router"}
        /\ "ansible_network_os" \notin DOMAIN inventory.hostvars["rtr-01"]
        /\ inventory.groupvars["all"]["sync_metadata"].processed_devices = 1
        /\ inventory.groupvars["all"]["sync_metadata"].skipped_devices = 0

\* The scenario, the device arriving in the source variables
Rtr01Synced ==
    /\ config.sync_mode = "incremental" /\ DefaultOptions
    /\ pre = EmptyInventory
    /\ env.source_vars = Envelope(<<DevA>>)
    /\ run.outcome = "ok"
    /\ inventory.hosts = {"rtr-01"}
    /\ inventory.hostvars["rtr-01"]["ansible_host"] = Str("10.0.0.1")

FlagInEffect(flag, dflt) ==
    IF flag \in DOMAIN config.safety_mode THEN config.safety_mode[flag] ELSE Bool(dflt)
MetadataOfThisRun ==
    run.outcome = "ok" =>
        /\ "sync_metadata" \in DOMAIN inventory.groupvars["all"]
        /\ inventory.groupvars["all"]["sync_metadata"] =
               [sync_mode |-> config.sync_mode,
                processed_devices |-> Cardinality(MergedAt),
                skipped_devices |-> Len(run.devices) - Cardinality(MergedAt),
                sync_timestamp |-> env.now \o "Z",
                safety_restrictions |->
                    [deletions_allowed |-> FlagInEffect("allow_deletions", FALSE),
                     preserve_existing |-> FlagInEffect("preserve_existing_groups", TRUE)]]

\* Metadata of an earlier sync (1 processed) replaced by a run that processed
\* two devices and skipped one
MetadataOverwritten ==
    /\ run.outcome = "ok"
    /\ "sync_metadata" \in DOMAIN pre.groupvars["all"]
    /\ pre.groupvars["all"]["sync_metadata"].processed_devices = 1
    /\ pre.groupvars["all"]["sync_metadata"].sync_timestamp # env.now \o "Z"
    /\ inventory.groupvars["all"]["sync_metadata"].processed_devices = 2
    /\ inventory.groupvars["all"]["sync_metadata"].skipped_devices = 1

\* C16: in incremental mode the devices are those of the source variables
\* whenever these hold orchestration_data, also when direct_data holds
\* devices, whose hosts are then not created; direct_data is read only
\* when the source variables hold no orchestration_data.
NamesOf(devices) == {devices[i]["name"].s : i \in {i \in 1..Len(devices) : Has(devices[i], "name")}}
SourcePrecedence ==
    (config.sync_mode = "incremental" /\ run.outcome # "idle") =>
        /\ IF "orchestration_data" \in DOMAIN env.source_vars
           THEN /\ run.outcome # "noop"
                /\ run.payload =
                       IF "devices" \in DOMAIN env.source_vars["orchestration_data"]
                       THEN env.source_vars["orchestration_data"]["devices"] ELSE <<>>
           ELSE IF "devices" \in DOMAIN env.direct_data
           THEN run.outcome # "noop" /\ run.payload = env.direct_data["devices"]
           ELSE run.outcome = "noop"
        /\ inventory.hosts \ pre.hosts \subseteq NamesOf(run.payload)

\* Both given, with different devices: the one of the source variables is
\* merged, the one of direct_data is not
SourceVarsWin ==
    /\ config.sync_mode = "incremental" /\ run.outcome = "ok"
    /\ "orchestration_data" \in DOMAIN env.source_vars
    /\ "devices" \in DOMAIN env.direct_data
    /\ pre = EmptyInventory
    /\ NamesOf(env.direct_data["devices"]) = {"sw-02"}
    /\ inventory.hosts = {"rtr-01"}

\* C17: an incremental run that is given no devices - no payload in the
\* source variables and no devices in direct_data, or an empty devices list -
\* ends without error and leaves the inventory, sync_metadata included, as it
\* was.
NoDevicesNoOp ==
    (/\ config.sync_mode = "incremental"
     /\ run.outcome \notin {"idle", "schema"}
     /\ run.payload = <<>>) =>
        /\ run.outcome \in {"noop", "ok"}
        /\ inventory = pre

\* C18: a device that cannot be merged - no usable name, or an exception in
\* its merge - is counted as skipped and ends nothing: every device of the
\* run has its turn, in order, those after a failure included, and the
\* metadata is written with the counts.
FailureSkipsOneDevice ==
    run.outcome = "ok" =>
        /\ Len(run.log) = Len(run.devices)
        /\ \A i \in 1..Len(run.devices) :
               /\ ~Truthy(Get(run.devices[i], "name")) => run.log[i] = "no_name"
               /\ (/\ Truthy(Get(run.devices[i], "name"))
                   /\ apply_filters(run.devices[i], config.filters)) =>
                      run.log[i] \in {"merged", "failed"}
               /\ run.log[i] = "merged" => run.devices[i]["name"].s \in inventory.hosts
        /\ run.processed = Cardinality(MergedAt)
        /\ run.skipped = Len(run.devices) - Cardinality(MergedAt)
        /\ "sync_metadata" \in DOMAIN inventory.groupvars["all"]
        /\ inventory.groupvars["all"]["sync_metadata"].skipped_devices = run.skipped

\* A device whose merge raised, and a later device of the same run merged
FailedThenMerged ==
    /\ run.outcome = "ok"
    /\ \E i \in 1..Len(run.log) : \E j \in (i + 1)..Len(run.log) :
           /\ run.log[i] = "failed"
           /\ run.log[j] = "merged"
           /\ run.devices[j]["name"].s \in inventory.hosts \ pre.hosts
    /\ inventory.groupvars["all"]["sync_metadata"].skipped_devices = 1

\* C19 (as stated): a full sync whose fetched batch is longer than
\* max_devices_per_sync, or holds a record marked absent while allow_deletions
\* is false, is rejected before any merge.
Fetched == config.sync_mode = "full_sync" /\ Truthy(config.cmdb_endpoint) /\ env.cmdb.ok
FullSyncGated ==
    (/\ Fetched /\ run.outcome # "idle"
     /\ \/ Len(run.payload) > max_devices_per_sync
        \/ ~allow_deletions /\ ~NoneAbsent(run.payload)) =>
        /\ run.outcome \in {"safety_size", "safety_deletion"}
        /\ inventory = pre

\* C19 (as the code has it): a full sync skips schema validation, field
\* validation and the safety gate: whatever the length of the fetched batch
\* and its deletion markers, every fetched device goes to filter and merge
\* and the metadata is written.
FullSyncSkipsGate ==
    (Fetched /\ run.outcome # "idle") =>
        /\ run.outcome = "ok"
        /\ ~run.validated
        /\ run.devices = GetOr(env.cmdb.response, "devices", <<>>)
        /\ Len(run.log) = Len(run.devices)
        /\ inventory.groupvars["all"]["sync_metadata"].sync_mode = "full_sync"

\* A fetched batch one past the limit with a record marked absent, deletions
\* not allowed, merged
FullSyncOverLimitMerged ==
    /\ Fetched /\ run.outcome = "ok"
    /\ Len(run.devices) = max_devices_per_sync + 1
    /\ ~allow_deletions
    /\ \E i \in MergedAt : MarkedAbsent(run.devices[i])
    /\ "sw-02" \in inventory.hosts \ pre.hosts

(***************************************************************************)
(* The discovery filters (CallSpec)                                        *)
(***************************************************************************)
\* C20: a discovery variant includes a catalog device iff the device meets
\* every filter axis that has a non-empty list - vendor, device type and OS
\* type together - and an axis given with an empty list excludes nothing.
DiscoveryAxes ==
    {<<"vendors", "vendor">>, <<"device_types", "device_type">>,
     <<"os_types", "os_type">>}
MeetsEveryAxis(d, f) ==
    /\ \A a \in DiscoveryAxes :
           (a[1] \in DOMAIN f /\ f[a[1]] # <<>>) => d[a[2]] \in Range(f[a[1]])
    /\ ("cisco_only" \in DOMAIN f /\ f["cisco_only"] = Bool(TRUE)) =>
           d["vendor"] = Str("cisco")
DiscoveryFilterSemantics ==
    call.fn = "discovery_filter" =>
        (call.result <=> MeetsEveryAxis(call.device, call.filters))

(***************************************************************************)
(* Re-sync of an existing host (CallSpec)                                  *)
(***************************************************************************)
\* The optional fields without default, each with the host variable it feeds
OptionalFields ==
    {<<"location", "location">>, <<"os_family", "os_family">>, <<"model", "model">>,
     <<"serial_number", "serial_number">>, <<"ssh_password", "ansible_password">>,
     <<"last_updated", "last_updated">>}
\* Variable k is in new what it is in old (set to the same value, or unset)
KeptAs(new, old, k) ==
    /\ k \in DOMAIN new <=> k \in DOMAIN old
    /\ k \in DOMAIN old => new[k] = old[k]

\* C21: when an existing host is re-synced, a record field that is given
\* (non-null) overwrites the variable, a record that omits an optional field
\* without default leaves the variable as it was, a record that omits
\* ssh_port / ssh_user sets ansible_port to 22 / ansible_user to "admin", and
\* the variables the record does not compute are as they were.
ResyncOverwrites ==
    (/\ call.fn = "add_device" /\ ~call.raised
     /\ call.device["name"].s \in pre.hosts) =>
        /\ \A o \in OptionalFields :
               IF o[1] \in DOMAIN call.device
               THEN inventory.hostvars[call.device["name"].s][o[2]] = call.device[o[1]]
               ELSE KeptAs(inventory.hostvars[call.device["name"].s],
                           pre.hostvars[call.device["name"].s], o[2])
        /\ \A k \in {"device_type", "vendor", "mgmt_ip"} :
               IF k \in DOMAIN call.device
               THEN inventory.hostvars[call.device["name"].s][k] = call.device[k]
               ELSE KeptAs(inventory.hostvars[call.device["name"].s],
                           pre.hostvars[call.device["name"].s], k)
        /\ {"ssh_port", "ansible_port"} \cap DOMAIN call.device = {} =>
               inventory.hostvars[call.device["name"].s]["ansible_port"] = Num(22)
        /\ {"ssh_user", "ansible_user"} \cap DOMAIN call.device = {} =>
               inventory.hostvars[call.device["name"].s]["ansible_user"] = Str("admin")
        /\ \A k \in DOMAIN pre.hostvars[call.device["name"].s] :
               StartsWith(k, "custom_") /\ k \notin DOMAIN call.device =>
                   KeptAs(inventory.hostvars[call.device["name"].s],
                          pre.hostvars[call.device["name"].s], k)

\* rtr-01, synced earlier with port 2222, user netops and location dc1, is
\* re-synced by a record without location, ssh_port and ssh_user and with
\* another vendor value: the location stays, port and user fall to the defaults
ResyncedWithDefaults ==
    /\ call.fn = "add_device" /\ ~call.raised
    /\ "rtr-01" \in pre.hosts
    /\ pre.hostvars["rtr-01"]["ansible_port"] = Num(2222)
    /\ pre.hostvars["rtr-01"]["ansible_user"] = Str("netops")
    /\ "location" \notin DOMAIN call.device
    /\ Get(call.device, "vendor") = Str("")
    /\ inventory.hostvars["rtr-01"]["location"] = Str("dc1")
    /\ inventory.hostvars["rtr-01"]["vendor"] = Str("")
    /\ inventory.hostvars["rtr-01"]["ansible_port"] = Num(22)
    /\ inventory.hostvars["rtr-01"]["ansible_user"] = Str("admin")

(***************************************************************************)
(* The preserve_existing_groups flag (Spec)                                *)
(***************************************************************************)
\* The configuration with preserve_existing_groups set to the other value
PreserveFlipped(cfg) ==
    [cfg EXCEPT !.safety_mode =
        With(@, "preserve_existing_groups",
             Bool(~Truthy(GetOr(@, "preserve_existing_groups", Bool(TRUE)))))]
PreserveInEffect ==
    Truthy(GetOr(config.safety_mode, "preserve_existing_groups", Bool(TRUE)))

\* C22: the run with preserve_existing_groups set the other way, on the same
\* inventory and input, ends the same way with the same hosts, groups,
\* memberships and host variables.
PreserveFlagGatesNothing ==
    run.outcome # "idle" =>
        \E twin \in {parse(pre, PreserveFlipped(config), env)} :
            /\ twin.outcome = run.outcome
            /\ twin.log = run.log
            /\ twin.inv.hosts = inventory.hosts
            /\ twin.inv.groups = inventory.groups
            /\ twin.inv.children = inventory.children
            /\ twin.inv.subgroups = inventory.subgroups
            /\ twin.inv.hostvars = inventory.hostvars

\* With the flag true, a re-sync of rtr-01 puts the existing host into a group
\* it was not in and overwrites its port
PreservedHostRegrouped ==
    /\ run.outcome = "ok"
    /\ PreserveInEffect
    /\ "rtr-01" \in pre.hosts
    /\ "core" \in GroupsOf(inventory, "rtr-01") \ GroupsOf(pre, "rtr-01")
    /\ pre.hostvars["rtr-01"]["ansible_port"] = Num(2222)
    /\ inventory.hostvars["rtr-01"]["ansible_port"] = Num(22)

(***************************************************************************)
(* The schema gate (Spec)                                                  *)
(***************************************************************************)
\* The envelope the incremental run hands to the schema validator
RawData ==
    IF "orchestration_data" \in DOMAIN env.source_vars THEN env.source_vars
    ELSE [k \in {"orchestration_data"} |-> env.direct_data]
SchemaInEffect == config.has_jsonschema /\ config.schema_loaded
\* The shape the schema asks for: a devices array under orchestration_data
\* whose items hold the four required keys
EnvelopeConforms ==
    /\ "devices" \in DOMAIN RawData["orchestration_data"]
    /\ \A i \in 1..Len(RawData["orchestration_data"]["devices"]) :
           {"name", "device_type", "vendor", "mgmt_ip"}
               \subseteq DOMAIN RawData["orchestration_data"]["devices"][i]

\* C23: without a loaded schema, or without the validator library, the schema
\* validator passes every envelope with no error and the run goes on to field
\* validation; with a schema, an envelope that violates it gets (false, one
\* error) and the incremental run ends there: no field validation, no safety
\* gate, nothing merged.
SoftSchemaGate ==
    (config.sync_mode = "incremental" /\ run.outcome \notin {"idle", "noop"}) =>
        \E v \in {validate_device_data(config, RawData)} :
            IF SchemaInEffect /\ ~EnvelopeConforms
            THEN /\ ~v.ok /\ v.nerrors = 1
                 /\ run.outcome = "schema"
                 /\ ~run.validated /\ run.valid = <<>> /\ run.errors = <<>>
                 /\ run.log = <<>>
                 /\ inventory = pre
            ELSE /\ v.ok /\ v.nerrors = 0
                 /\ run.outcome # "schema"
                 /\ run.outcome # "exception" => run.validated

\* A longest payload with a valid record and one that lacks its name, rejected
\* by the schema on an inventory that holds an earlier sync
SchemaRejectsFirst ==
    /\ config.sync_mode = "incremental" /\ SchemaInEffect
    /\ run.outcome = "schema"
    /\ Len(run.payload) = MaxBatch
    /\ \E i \in 1..Len(run.payload) : Passes(run.payload[i])
    /\ \E i \in 1..Len(run.payload) : "name" \notin DOMAIN run.payload[i]
    /\ pre.hosts # {}
    /\ inventory = pre

(***************************************************************************)
(* The group mapper (CallSpec)                                             *)
(***************************************************************************)
\* The static axes in the order of the result
AxisOrder ==
    << <<"by_vendor", "vendor", "vendor_">>, <<"by_location", "location", "location_">>,
       <<"by_device_type", "device_type", "type_">>, <<"by_os_family", "os_family", "os_">> >>
ExpectedStatic(d, gm) ==
    LET on == SelectSeq(AxisOrder,
                        LAMBDA a : /\ AxisEnabled(gm, a[1])
                                   /\ a[2] \in DOMAIN d
                                   /\ d[a[2]] # Str(""))
    IN  [i \in 1..Len(on) |-> on[i][3] \o d[on[i][2]].s]
\* A criterion is met by a field of that value; a field the record lacks
\* meets only the null value
CriterionMet(d, field, value) ==
    IF field \in DOMAIN d THEN d[field] = value ELSE value = None
ExpectedCustom(d, gm) ==
    LET hit == SelectSeq(GetOr(gm, "custom_groups", <<>>),
                         LAMBDA g : \A k \in DOMAIN g.criteria :
                                        CriterionMet(d, k, g.criteria[k]))
    IN  [i \in 1..Len(hit) |-> hit[i].name]

\* C24: _create_device_groups returns the vendor, location, device_type and
\* os_family groups in that order, then the custom groups in configuration
\* order, a custom group being in the list iff the record meets every one of
\* its criteria; a custom group without criteria is in the list of every
\* device.
GroupOrderAndCriteria ==
    call.fn = "create_groups" =>
        /\ ~call.result.raised
        /\ call.result.groups =
               ExpectedStatic(call.device, call.group_mappings)
               \o ExpectedCustom(call.device, call.group_mappings)
        /\ \A g \in Range(GetOr(call.group_mappings, "custom_groups", <<>>)) :
               g.criteria = EmptyDict => g.name \in Range(call.result.groups)

\* Four static groups, then the group without criteria and `core`, in the
\* order the configuration lists them
StaticThenCustomInOrder ==
    /\ call.fn = "create_groups"
    /\ call.result.groups =
           <<"vendor_cisco", "location_dc1", "type_router", "os_ios", "everything", "core">>

(***************************************************************************)
(* Records of one host in one batch (Spec)                                 *)
(***************************************************************************)
\* The positions of the run's devices that reached the merger for host h
Touching(h) ==
    {i \in 1..Len(run.log) :
        run.log[i] \in {"merged", "failed"} /\ run.devices[i]["name"] = Str(h)}
\* The variables a record computes for its host, by name
ComputedVars(device, host_exists) ==
    LET ByName(hv) ==
            [k \in {hv[n][1] : n \in 1..Len(hv)} |->
                hv[CHOOSE n \in 1..Len(hv) : hv[n][1] = k][2]]
    IN  ByName(host_vars(device, host_exists))
Latest(S) == CHOOSE i \in S : \A j \in S : j <= i
VarsBefore(h) == IF h \in pre.hosts THEN pre.hostvars[h] ELSE EmptyVars

\* C25: the records of a batch are merged in input order; a host that several
\* records of the batch name is one host, each of its variables holds the
\* value of the latest record that computes a non-null value for it (what it
\* held before when none does), its groups are those it was in, `network`, and
\* the groups derived from each of the records, and every merged record is
\* counted as processed.
LastWriteWinsInOrder ==
    run.outcome = "ok" =>
        /\ \A h \in inventory.hosts \ inventory.groups :
               \E at \in {Touching(h)} :
                 at # {} =>
                   /\ \E cv \in {[i \in at |->
                                     ComputedVars(run.devices[i],
                                                  h \in pre.hosts \/ \E j \in at : j < i)]} :
                        \A k \in UNION {DOMAIN cv[i] : i \in at} \cup DOMAIN VarsBefore(h) :
                            \E givers \in {{i \in at : k \in DOMAIN cv[i] /\ cv[i][k] # None}} :
                                IF givers = {}
                                THEN KeptAs(inventory.hostvars[h], VarsBefore(h), k)
                                ELSE /\ k \in DOMAIN inventory.hostvars[h]
                                     /\ inventory.hostvars[h][k] = cv[Latest(givers)][k]
                   /\ at \subseteq MergedAt =>
                          GroupsOf(inventory, h) =
                              GroupsOf(pre, h) \cup {"network"}
                              \cup UNION {Range(create_device_groups(
                                                    run.devices[i], config.group_mappings).groups) :
                                              i \in at}
        /\ run.processed = Cardinality(MergedAt)
        /\ inventory.groupvars["all"]["sync_metadata"].processed_devices =
               Cardinality(MergedAt)

\* The full record of rtr-01 and then the minimal one, in one batch on an
\* empty inventory: one host, the location and OS groups of the first record,
\* the port of the second, two processed
SameNameTwiceInBatch ==
    /\ run.outcome = "ok"
    /\ pre = EmptyInventory
    /\ \E i \in MergedAt : \E j \in MergedAt :
           i < j /\ run.devices[i] = DevB /\ run.devices[j] = DevA
    /\ inventory.hosts = {"rtr-01"}
    /\ inventory.hostvars["rtr-01"]["ansible_port"] = Num(22)
    /\ inventory.hostvars["rtr-01"]["ansible_host"] = Str("10.0.0.1")
    /\ inventory.hostvars["rtr-01"]["location"] = Str("dc1")
    /\ {"location_dc1", "os_ios", "type_router"} \subseteq GroupsOf(inventory, "rtr-01")
    /\ run.processed = 2

(***************************************************************************)
(* Count accounting (Spec)                                                 *)
(***************************************************************************)
SkippedAt == {i \in 1..Len(run.log) : run.log[i] \in {"no_name", "filtered", "failed"}}

\* C26: in a completed run every record that enters the loop is counted once,
\* as processed or as skipped - skipped iff it has no name, is filtered out or
\* its merge raised - so processed + skipped is the number of records field
\* validation left; the records it set aside are in neither count.
CountAccounting ==
    run.outcome = "ok" =>
        /\ Len(run.log) = Len(run.devices)
        /\ run.processed = Cardinality(MergedAt)
        /\ run.skipped = Cardinality(SkippedAt)
        /\ run.processed + run.skipped = Len(run.devices)
        /\ inventory.groupvars["all"]["sync_metadata"].processed_devices
               + inventory.groupvars["all"]["sync_metadata"].skipped_devices
           = Len(run.devices)
        /\ \A i \in 1..Len(run.devices) :
               /\ run.log[i] = "no_name" <=> ~Truthy(Get(run.devices[i], "name"))
               /\ run.log[i] = "filtered" <=>
                      /\ Truthy(Get(run.devices[i], "name"))
                      /\ ~apply_filters(run.devices[i], config.filters)
        /\ IF run.validated
           THEN /\ run.devices = SelectSeq(run.payload, Passes)
                /\ Len(run.devices) = Len(run.payload) - Len(run.errors)
           ELSE run.devices = run.payload

\* A payload of three: one record set aside by field validation, one filtered
\* out, one merged; the counts add up to two
CountsBelowPayload ==
    /\ run.outcome = "ok" /\ run.validated
    /\ Len(run.payload) = MaxBatch
    /\ Len(run.errors) = 1
    /\ run.processed = 1 /\ run.skipped = 1
    /\ \E i \in 1..Len(run.log) : run.log[i] = "filtered"
    /\ inventory.groupvars["all"]["sync_metadata"].processed_devices = 1
    /\ inventory.groupvars["all"]["sync_metadata"].skipped_devices = 1

(***************************************************************************)
(* Failed merges (Spec)                                                    *)
(***************************************************************************)
FailedAt == {i \in 1..Len(run.log) : run.log[i] = "failed"}

\* Record number i found no group of its host's name, so that its writes went
\* to the host: there is none now, or there was none before the run and no
\* earlier record reached the merger
WrittenAsHost(h, i) ==
    \/ h \notin inventory.groups
    \/ /\ h \notin pre.groups
       /\ \A j \in 1..(i - 1) : run.log[j] \notin {"merged", "failed"}

\* C27: a device whose merge raised after its host was added is counted as
\* skipped, and what the merge wrote before it raised stays: the host, the
\* variables the record computes, and - when the group derivation itself did
\* not raise - the memberships in the derived groups.
NoRollback ==
    run.outcome = "ok" =>
        /\ \A i \in FailedAt :
               /\ i \in SkippedAt
               /\ \E h \in {run.devices[i]["name"].s} :
                      /\ h \in inventory.hosts
                      /\ (Touching(h) = {i} /\ WrittenAsHost(h, i)) =>
                             /\ \E cv \in {ComputedVars(run.devices[i], h \in pre.hosts)} :
                                    \A k \in DOMAIN cv :
                                        cv[k] # None =>
                                            /\ k \in DOMAIN inventory.hostvars[h]
                                            /\ inventory.hostvars[h][k] = cv[k]
                             /\ \E g \in {create_device_groups(run.devices[i],
                                                               config.group_mappings)} :
                                    ~g.raised => Range(g.groups) \subseteq GroupsOf(inventory, h)
        /\ inventory.groupvars["all"]["sync_metadata"].skipped_devices
               = Cardinality(SkippedAt)

\* The one device of a run failed at the last step of its merge: it is counted
\* as skipped, nothing is counted as processed, and its host is in the
\* inventory with its address and in its vendor group
SkippedHostPresent ==
    /\ run.outcome = "ok"
    /\ Len(run.log) = 1 /\ FailedAt = {1}
    /\ run.processed = 0 /\ run.skipped = 1
    /\ inventory.hosts \ pre.hosts = {run.devices[1]["name"].s}
    /\ inventory.hostvars[run.devices[1]["name"].s]["ansible_host"] = Str("10.0.0.7")
    /\ "vendor_cisco" \in GroupsOf(inventory, run.devices[1]["name"].s)

(***************************************************************************)
(* The discovery run (CallSpec)                                            *)
(***************************************************************************)
\* The catalog devices that are up and pass the filters of the run
Discoverable ==
    {DeviceInfo(c)["hostname"].s :
        c \in {c \in Range(definition_order) :
                  /\ call.probe[c] = "up"
                  /\ MeetsEveryAxis(DeviceInfo(c), call.options.filters)}}

\* C28: a run of the network_devices plugin ends normally whatever the
\* liveness, port and filter checks answer - also when no device is discovered
\* and keyed_groups is not empty - and its hosts are the catalog devices whose
\* container runs, whose SSH port answers and that pass the filters.
DiscoveryCompletes ==
    call.fn = "discovery_parse" =>
        /\ ~call.raised
        /\ inventory.hosts = Discoverable

====
